---- MODULE Spec2Model ----
(***************************************************************************)
(* A model of saw: the Source Stream (LogFile), the Aggregator (k-way      *)
(* merge of the streams by time), the pull-driven pipeline of main(), the  *)
(* filter clauses and the time range, the pattern language (lexer, parser  *)
(* and printer) and the chunked sink (ChunkedWriter).                      *)
(***************************************************************************)
EXTENDS Integers, Sequences, FiniteSets, TLC

\* ------------------------------------------------------------------ bounds
MaxFiles == 2
MaxLines == 3
MaxTime == 3
MaxTotal == 3

\* ------------------------------------------------------- values and lines
\* Option<T>: None is the empty sequence, Some(x) the one-element sequence.
None == << >>
Some(x) == << x >>

\* One entry of a serde_json Map<String, Value>; a map is a sequence of
\* entries with distinct keys.
Entry(k, ty, s) == [key |-> k, type |-> ty, str |-> s]

\* Map::get
MapGet(map, k) ==
  LET I == {i \in 1..Len(map) : map[i].key = k}
  IN IF I = {} THEN None ELSE Some(map[CHOOSE i \in I : TRUE])

\* Value::as_str
AsStr(v) == IF v.type = "string" THEN Some(v.str) ELSE None

\* The text of the local date-time t seconds into 2020-01-01.
TimeStr(t) == "2020-01-01T00:00:0" \o ToString(t)

\* LocalDateTime::from_str(..).ok(): a LocalDateTime is modelled by its
\* second, 0..9; any other text does not parse.
TimeTexts == [t \in 0..9 |-> TimeStr(t)]
ParseTime(s) ==
  IF \E t \in 0..9 : s = TimeTexts[t]
  THEN Some(CHOOSE t \in 0..9 : s = TimeTexts[t])
  ELSE None

\* body.get("time").and_then(as_str).and_then(from_str(..).ok())
TimeField(body) ==
  LET time == MapGet(body, "time")
  IN IF time = None THEN None
     ELSE LET str == AsStr(time[1])
          IN IF str = None THEN None ELSE ParseTime(str[1])

\* A raw line of an input file: its JSON shape and, for an object, its map.
RawLine(j, m) == [json |-> j, map |-> m]
ValidLine(t) == RawLine("object", << Entry("time", "string", TimeStr(t)) >>)
Malformed == RawLine("malformed", << >>)
NonObject == RawLine("array", << >>)
MissingTime == RawLine("object", << Entry("message", "string", "hello") >>)
NonStringTime == RawLine("object", << Entry("time", "number", "1") >>)
BadTime == RawLine("object", << Entry("time", "string", "yesterday") >>)

\* serde_json::from_str matched against Ok(Value::Object(map))
ParseObject(raw) == IF raw.json = "object" THEN Some(raw.map) ELSE None

\* ---------------------------------------------------------------- LogFile
FileName(i) == "f" \o ToString(i)

\* Mutant: the reader yields the lines of the file last to first.
RECURSIVE Reverse(_)
Reverse(s) == IF s = << >> THEN << >> ELSE Append(Reverse(Tail(s)), Head(s))
LogFileNewReversed(i, content) ==
  [name |-> FileName(i), src |-> Reverse(content), line |-> 0,
   is_completed |-> FALSE, next |-> None]

\* LogFile::new / from_file: nothing read yet.
LogFileNew(i, content) ==
  [name |-> FileName(i), src |-> content, line |-> 0,
   is_completed |-> FALSE, next |-> None]

MkLine(body, time, file, line) ==
  [value |-> body, time |-> time, src |-> [file |-> file, line |-> line]]

\* LogFile::do_advance: the stream after the call and the returned flag.
DoAdvance(self) ==
  LET read == IF self.src = << >> THEN 0 ELSE 1
      line == self.line
      s1 == [self EXCEPT !.line = line + 1,
                         !.src = IF read = 0 THEN << >> ELSE Tail(self.src)]
  IN IF read = 0
     THEN [self |-> [s1 EXCEPT !.is_completed = TRUE], ret |-> TRUE]
     ELSE LET body == ParseObject(Head(self.src))
          IN IF body = None
             THEN [self |-> s1, ret |-> FALSE]
             ELSE LET time == TimeField(body[1])
                  IN IF time = None
                     THEN [self |-> s1, ret |-> FALSE]
                     ELSE [self |-> [s1 EXCEPT !.next =
                                       Some(MkLine(body[1], time[1], self.name, line))],
                           ret |-> TRUE]

\* Mutant: `if` for `while`, do_advance is not retried after an invalid line.
AdvanceOnce(self) == DoAdvance(self).self

\* while !self.do_advance() {}
RECURSIVE AdvanceLoop(_)
AdvanceLoop(self) ==
  LET r == DoAdvance(self)
  IN IF r.ret THEN r.self ELSE AdvanceLoop(r.self)

\* Mutant: no early return on a completed stream.
AdvanceNoGuard(self) ==
  LET s == AdvanceLoop(self)
  IN [self |-> s, ret |-> ~s.is_completed]

\* Mutant: the loop runs a second time, reading one record too many.
AdvanceTwice(self) ==
  IF self.is_completed
  THEN [self |-> self, ret |-> FALSE]
  ELSE LET s == AdvanceLoop(self)
           s2 == IF s.is_completed THEN s ELSE AdvanceLoop(s)
       IN [self |-> s2, ret |-> ~s2.is_completed]

\* LogFile::advance
Advance(self) ==
  IF self.is_completed
  THEN [self |-> self, ret |-> FALSE]
  ELSE LET s == AdvanceLoop(self)
       IN [self |-> s, ret |-> ~s.is_completed]

\* LogFile::time panics on a completed stream and on an empty buffer.
TimePanics(self) == self.is_completed \/ self.next = None
Time(self) == self.next[1].time

\* LogFile::take panics on a completed stream and on an empty buffer.
TakePanics(self) == self.is_completed \/ self.next = None
Take(self) == [self |-> [self EXCEPT !.next = None], line |-> self.next[1]]

\* -------------------------------------------------------------- Aggregator
\* The permutations of a sequence.
Perms(s) ==
  LET n == Len(s)
      B == {f \in [1..n -> 1..n] : \A i, j \in 1..n : f[i] = f[j] => i = j}
  IN {[i \in 1..n |-> s[f[i]]] : f \in B}

\* logs.sort_unstable_by(|left, right| right.time().cmp(&left.time())): the
\* order of equal elements is not specified, so every descending order is
\* a possible result.
SortUnstableBy(s) ==
  {p \in Perms(s) : \A i \in 1..(Len(p) - 1) : Time(p[i]) >= Time(p[i + 1])}

\* Aggregator::new up to the sort: prime every stream, keep the not completed.
Primed(ls) == [i \in 1..Len(ls) |-> Advance(ls[i]).self]
\* Mutant: completed streams are kept.
RetainAll(ls) == ls
Retain(ls) == SelectSeq(ls, LAMBDA log : ~log.is_completed)

\* Mutant: the greatest time is chosen (max_by for min_by).
RECURSIVE MinByFromGreatest(_, _, _)
MinByFromGreatest(ls, best, i) ==
  IF i > Len(ls) THEN best
  ELSE MinByFromGreatest(ls, IF Time(ls[best]) < Time(ls[i]) THEN i ELSE best, i + 1)

\* Mutant: the fold keeps the right element on Equal, the last minimum wins.
RECURSIVE MinByFromLastWins(_, _, _)
MinByFromLastWins(ls, best, i) ==
  IF i > Len(ls) THEN best
  ELSE MinByFromLastWins(ls, IF Time(ls[best]) >= Time(ls[i]) THEN i ELSE best, i + 1)

\* Iterator::min_by over enumerate(): the fold keeps the left element unless
\* the comparison is Greater, so the first of several minima is returned.
RECURSIVE MinByFrom(_, _, _)
MinByFrom(ls, best, i) ==
  IF i > Len(ls) THEN best
  ELSE MinByFrom(ls, IF Time(ls[best]) > Time(ls[i]) THEN i ELSE best, i + 1)
MinBy(ls) == MinByFrom(ls, 1, 2)

\* Mutant: the first stream is removed, whichever one ended.
RemoveFirst(s, i) == Tail(s)

\* Vec::remove
Remove(s, i) == SubSeq(s, 1, i - 1) \o SubSeq(s, i + 1, Len(s))

\* min_by compares, and so calls time() on the streams, only when there are
\* two streams or more.
PeekPanics(ls) == Len(ls) >= 2 /\ \E i \in 1..Len(ls) : TimePanics(ls[i])

\* The index min_by returns on a non-empty active set.
MinIndex(ls) == IF Len(ls) >= 2 THEN MinBy(ls) ELSE 1

\* Mutant: the stream is not advanced again after take().
AggNextNoAdvance(ls) ==
  LET min_index == MinIndex(ls)
      taken == Take(ls[min_index])
  IN [logs |-> [ls EXCEPT ![min_index] = taken.self],
      result |-> Some(taken.line),
      index |-> min_index,
      read |-> 0]

\* Mutant: a stream that ended is left in the active set.
AggNextNoEvict(ls) ==
  LET min_index == MinIndex(ls)
      taken == Take(ls[min_index])
      adv == Advance(taken.self)
  IN [logs |-> [ls EXCEPT ![min_index] = adv.self],
      result |-> Some(taken.line),
      index |-> min_index,
      read |-> Len(ls[min_index].src) - Len(adv.self.src)]

\* Aggregator::next on a non-empty active set, when nothing panics.
AggNext(ls) ==
  LET min_index == MinIndex(ls)
      taken == Take(ls[min_index])
      adv == Advance(taken.self)
      kept == [ls EXCEPT ![min_index] = adv.self]
  IN [logs |-> IF ~adv.ret THEN Remove(kept, min_index) ELSE kept,
      result |-> Some(taken.line),
      index |-> min_index,
      read |-> Len(ls[min_index].src) - Len(adv.self.src)]

\* ------------------------------------------------------------------- state
VARIABLES
  files,     \* the content of every input file, by position on the command line
  logs,      \* Aggregator.logs (before Aggregator::new: the opened LogFiles)
  pc,        \* where the program is: "new", "pull", "panic"
  out,       \* the records next() has returned so far, in order
  last,      \* what the latest next() returned
  calls,     \* the number of next() calls made
  fault,     \* the panic raised, "" if none
  ret,       \* what the latest advance() call on a stream by itself returned
  nread,     \* the number of valid lines read from the inputs so far
  range,     \* Arguments.range: an optional minimum and an optional maximum
  filter,    \* Arguments.filter: an optional FilterSet
  inflight,  \* the record between the Aggregator and the end of the closure
  sink,      \* what was written to the output, record by record
  rejected,  \* the records a filter stage dropped
  pretty,    \* Arguments.pretty: an optional PrettyDescriptor
  argv,      \* the command-line options Arguments::parse has not read yet
  args,      \* the other fields of Arguments: sources, output, chunked,
             \* translations and zip
  cw,        \* the ChunkedWriter: its counters and its configuration
  disk,      \* the chunk files created so far, in the order of creation
  events     \* what the ChunkedWriter did to its files and sinks, in order

cfgVars == << range, filter, pretty, argv, args >>
pipeVars == << inflight, sink, rejected >>
chunkVars == << cw, disk, events >>
vars == << files, logs, pc, out, last, calls, fault, ret, nread, cfgVars, pipeVars,
           chunkVars >>

\* The other fields of Arguments as Arguments::parse first sets them.
NoArgs ==
  [sources |-> << >>, output |-> None, chunked |-> None, translations |-> << >>,
   zip |-> FALSE]

\* The configuration and the pipeline of a run that only drives the
\* Aggregator or one stream: no range, no filter, nothing written.
NoPipeline ==
  /\ range = [min |-> None, max |-> None]
  /\ args = NoArgs
  /\ filter = None
  /\ pretty = None
  /\ argv = << >>
  /\ inflight = None
  /\ sink = << >>
  /\ rejected = << >>

\* No chunked sink: the output, if any, is not split into chunks.
NoChunks ==
  /\ cw = None
  /\ disk = << >>
  /\ events = << >>

\* The sequences over S of length at most n.
RECURSIVE SeqsUpTo(_, _)
SeqsUpTo(S, n) ==
  IF n = 0 THEN {<< >>}
  ELSE LET shorter == SeqsUpTo(S, n - 1)
       IN shorter \cup {Append(s, x) : s \in {t \in shorter : Len(t) = n - 1}, x \in S}

\* The vectors of n files, each of at most MaxLines lines, of at most
\* budget lines together.
RECURSIVE FileVectors(_, _, _)
FileVectors(S, n, budget) ==
  IF n = 0 THEN {<< >>}
  ELSE UNION {{<< f >> \o rest : rest \in FileVectors(S, n - 1, budget - Len(f))} :
                f \in SeqsUpTo(S, IF budget < MaxLines THEN budget ELSE MaxLines)}

AggLines == {ValidLine(t) : t \in 1..MaxTime} \cup {Malformed, MissingTime}

Init ==
  /\ files \in UNION {FileVectors(AggLines, n, MaxTotal) : n \in 0..MaxFiles}
  /\ logs = [i \in 1..Len(files) |-> LogFileNew(i, files[i])]
  /\ pc = "new"
  /\ out = << >>
  /\ last = None
  /\ calls = 0
  /\ fault = ""
  /\ ret = FALSE
  /\ nread = 0
  /\ NoPipeline
  /\ NoChunks

\* The number of lines of all input files.
RECURSIVE TotalLines(_)
TotalLines(fs) == IF fs = << >> THEN 0 ELSE Len(Head(fs)) + TotalLines(Tail(fs))

\* The number of valid lines among the first n lines of rest.
RECURSIVE ValidAmong(_, _)
ValidAmong(rest, n) ==
  IF n = 0 THEN 0
  ELSE (IF ParseObject(Head(rest)) # None /\ TimeField(Head(rest).map) # None
        THEN 1 ELSE 0) + ValidAmong(Tail(rest), n - 1)

\* The valid lines the streams ls have read since they were the streams old.
RECURSIVE ReadSince(_, _)
ReadSince(old, ls) ==
  IF old = << >> THEN 0
  ELSE ValidAmong(Head(old).src, Len(Head(old).src) - Len(Head(ls).src))
         + ReadSince(Tail(old), Tail(ls))

\* Aggregator::new
AggregatorNew ==
  /\ pc = "new"
  /\ nread' = nread + ReadSince(logs, Primed(logs))
  /\ LET retained == Retain(Primed(logs))
     IN IF Len(retained) >= 2 /\ \E i \in 1..Len(retained) : TimePanics(retained[i])
        THEN /\ logs' = retained
             /\ pc' = "panic"
             /\ fault' = "peek"
        ELSE /\ logs' \in SortUnstableBy(retained)
             /\ pc' = "pull"
             /\ fault' = ""
  /\ UNCHANGED << files, out, last, calls, ret, cfgVars, chunkVars, pipeVars >>

\* One call of Aggregator::next by the consumer of the iterator; the
\* consumer may go on calling after None.
Pull ==
  /\ pc = "pull"
  /\ calls < TotalLines(files) + 2
  /\ calls' = calls + 1
  /\ IF logs = << >>
     THEN /\ last' = None
          /\ UNCHANGED << logs, out, pc, fault, nread >>
     ELSE IF PeekPanics(logs) \/ TakePanics(logs[MinIndex(logs)])
     THEN /\ pc' = "panic"
          /\ fault' = IF PeekPanics(logs) THEN "peek" ELSE "take"
          /\ UNCHANGED << logs, out, last, nread >>
     ELSE LET r == AggNext(logs)
          IN /\ logs' = r.logs
             /\ last' = r.result
             /\ out' = Append(out, r.result[1])
             /\ nread' = nread + ValidAmong(logs[r.index].src, r.read)
             /\ UNCHANGED << pc, fault >>
  /\ UNCHANGED << files, ret, cfgVars, chunkVars, pipeVars >>

Next == AggregatorNew \/ Pull

Spec == Init /\ [][Next]_vars

\* The character of s at position i, "" outside s.
CharAt(s, i) == IF 1 <= i /\ i <= Len(s) THEN SubSeq(s, i, i) ELSE ""

\* The characters of a text, as a set.
Chars(s) == {SubSeq(s, i, i) : i \in 1..Len(s)}

\* Regex::new(body).ok() for a body of literal characters: such a body is a
\* regex; a body that opens a group and never closes it is none.
RegexNew(body) ==
  IF "(" \in Chars(body) /\ ~(")" \in Chars(body)) THEN None ELSE Some(body)

\* ------------------------------------------------ the pattern language
\* A PrettyToken: Literal and Variable carry a text.
Token(k, t) == [kind |-> k, text |-> t]

\* ESCAPE_MAP with an entry for 'v' as well, which stands for a space.
EscapeMapWithV(follow) ==
  CASE follow = "t" -> Some("\t")
    [] follow = "s" -> Some(" ")
    [] follow = "n" -> Some("\n")
    [] follow = "r" -> Some("\r")
    [] follow = "%" -> Some("%")
    [] follow = "\\" -> Some("\\")
    [] follow = "/" -> Some("/")
    [] follow = "(" -> Some("(")
    [] follow = ")" -> Some(")")
    [] follow = "v" -> Some(" ")
    [] OTHER -> None

\* ESCAPE_MAP: the character an escape stands for, None for an unknown one.
EscapeMap(follow) ==
  CASE follow = "t" -> Some("\t")
    [] follow = "s" -> Some(" ")
    [] follow = "n" -> Some("\n")
    [] follow = "r" -> Some("\r")
    [] follow = "%" -> Some("%")
    [] follow = "\\" -> Some("\\")
    [] follow = "/" -> Some("/")
    [] follow = "(" -> Some("(")
    [] follow = ")" -> Some(")")
    [] OTHER -> None

AsciiLetters ==
  {SubSeq("abcdefghijklmnopqrstuvwxyz", i, i) : i \in 1..26}
    \cup {SubSeq("ABCDEFGHIJKLMNOPQRSTUVWXYZ", i, i) : i \in 1..26}

\* lex_identifier from position i of src: the first position that holds no
\* ASCII letter.
RECURSIVE LexIdentifier(_, _)
LexIdentifier(src, i) ==
  IF i <= Len(src) /\ SubSeq(src, i, i) \in AsciiLetters
  THEN LexIdentifier(src, i + 1) ELSE i

\* lex_literal from position i of src with the literal read so far: the
\* literal and the position after it, None when an `expect` panics.
RECURSIVE LexLiteral(_, _, _)
LexLiteral(src, i, name) ==
  IF i > Len(src) THEN Some([name |-> name, next |-> i])
  ELSE LET next == SubSeq(src, i, i)
       IN IF next = "\\"
          THEN IF i + 1 > Len(src) THEN None
               ELSE LET found == EscapeMap(SubSeq(src, i + 1, i + 1))
                    IN IF found = None THEN None
                       ELSE LexLiteral(src, i + 2, name \o found[1])
          ELSE IF next \in {"%", "(", "/", ")"}
          THEN Some([name |-> name, next |-> i])
          ELSE LexLiteral(src, i + 1, name \o next)

\* PrettyDescriptor::lex from position i: the tokens, None when lex_literal
\* panics.
RECURSIVE LexFrom(_, _, _)
LexFrom(src, i, tokens) ==
  IF i > Len(src) THEN Some(tokens)
  ELSE LET next == SubSeq(src, i, i)
       IN IF next = "%"
          THEN LET end == LexIdentifier(src, i + 1)
               IN LexFrom(src, end, Append(tokens, Token("Variable", SubSeq(src, i + 1, end - 1))))
          ELSE IF next = "(" THEN LexFrom(src, i + 1, Append(tokens, Token("OpenParen", "")))
          ELSE IF next = ")" THEN LexFrom(src, i + 1, Append(tokens, Token("CloseParen", "")))
          ELSE IF next = "/" THEN LexFrom(src, i + 1, Append(tokens, Token("Slash", "")))
          ELSE LET literal == LexLiteral(src, i, "")
               IN IF literal = None THEN None
                  ELSE LexFrom(src, literal[1].next,
                               Append(tokens, Token("Literal", literal[1].name)))

Lex(pattern) == LexFrom(pattern, 1, << >>)

\* The PrettyFragments; a PrettyDescriptor is the sequence of its fragments.
LiteralFrag(lit) == [kind |-> "Literal", text |-> lit]
VariableFrag(name) == [kind |-> "Variable", text |-> name]
PrefixFrag(prefix, base) == [kind |-> "Prefix", prefix |-> prefix, base |-> base]
ReplaceFrag(base, regex, replacement, global) ==
  [kind |-> "Replace", base |-> base, regex |-> regex, replacement |-> replacement,
   global |-> global]

\* What a parsing function leaves: "ok" with its value and the tokens not
\* read yet, "end" when there was no token, "panic".
Parsed(v, rest) == [st |-> "ok", val |-> v, rest |-> rest]
ParseEnd == [st |-> "end", val |-> << >>, rest |-> << >>]
ParsePanic == [st |-> "panic", val |-> << >>, rest |-> << >>]

\* The kind of the i-th token of src, "" when there is none.
KindAt(src, i) == IF i <= Len(src) THEN src[i].kind ELSE ""

RECURSIVE ParseExpression(_)
RECURSIVE ParseFunction(_, _)
RECURSIVE ParseArgument(_, _)

\* PrettyDescriptor::parse_expression
ParseExpression(src) ==
  IF src = << >> THEN ParseEnd
  ELSE LET next == Head(src)
       IN IF next.kind = "Literal" THEN Parsed(LiteralFrag(next.text), Tail(src))
          ELSE IF next.kind = "Variable"
          THEN IF KindAt(src, 2) = "OpenParen"
               THEN ParseFunction(Tail(Tail(src)), next.text)
               ELSE Parsed(VariableFrag(next.text), Tail(src))
          ELSE ParsePanic

\* parse_function that reads the regex and the replacement of a replace as
\* arguments of any form: an argument of one Literal gives its text, any
\* other one the empty text.
ParseFunctionAnyArguments(src, name) ==
  IF name = "prefix"
  THEN LET prefix == ParseArgument(src, << >>)
       IN IF prefix.st # "ok" \/ KindAt(prefix.rest, 1) # "Slash" THEN ParsePanic
          ELSE LET base == ParseArgument(Tail(prefix.rest), << >>)
               IN IF base.st # "ok" \/ KindAt(base.rest, 1) # "CloseParen" THEN ParsePanic
                  ELSE Parsed(PrefixFrag(prefix.val, base.val), Tail(base.rest))
  ELSE IF name \in {"replace", "replaceAll"}
  THEN LET base == ParseArgument(src, << >>)
       IN IF base.st # "ok" \/ KindAt(base.rest, 1) # "Slash" THEN ParsePanic
          ELSE LET regex == ParseArgument(Tail(base.rest), << >>)
               IN IF regex.st # "ok" \/ KindAt(regex.rest, 1) # "Slash" THEN ParsePanic
                  ELSE LET replacement == ParseArgument(Tail(regex.rest), << >>)
                           TextOf(val) == IF Len(val) = 1 /\ val[1].kind = "Literal"
                                          THEN val[1].text ELSE ""
                       IN IF replacement.st # "ok"
                             \/ KindAt(replacement.rest, 1) # "CloseParen"
                          THEN ParsePanic
                          ELSE Parsed(ReplaceFrag(base.val, TextOf(regex.val),
                                                  TextOf(replacement.val),
                                                  name = "replaceAll"),
                                      Tail(replacement.rest))
  ELSE ParsePanic

\* parse_function that takes an unknown name for a call of prefix.
ParseFunctionAnyName(src, name) ==
  IF name \in {"replace", "replaceAll"}
  THEN LET base == ParseArgument(src, << >>)
       IN IF base.st # "ok" THEN ParsePanic
          ELSE LET rest == base.rest
               IN IF /\ KindAt(rest, 1) = "Slash"
                     /\ KindAt(rest, 2) = "Literal"
                     /\ KindAt(rest, 3) = "Slash"
                     /\ KindAt(rest, 4) = "Literal"
                     /\ KindAt(rest, 5) = "CloseParen"
                     /\ RegexNew(rest[2].text) # None
                  THEN Parsed(ReplaceFrag(base.val, rest[2].text, rest[4].text,
                                          name = "replaceAll"),
                              SubSeq(rest, 6, Len(rest)))
                  ELSE ParsePanic
  ELSE LET prefix == ParseArgument(src, << >>)
       IN IF prefix.st # "ok" \/ KindAt(prefix.rest, 1) # "Slash" THEN ParsePanic
          ELSE LET base == ParseArgument(Tail(prefix.rest), << >>)
               IN IF base.st # "ok" \/ KindAt(base.rest, 1) # "CloseParen" THEN ParsePanic
                  ELSE Parsed(PrefixFrag(prefix.val, base.val), Tail(base.rest))

\* PrettyDescriptor::parse_function
ParseFunction(src, name) ==
  IF name = "prefix"
  THEN LET prefix == ParseArgument(src, << >>)
       IN IF prefix.st # "ok" \/ KindAt(prefix.rest, 1) # "Slash" THEN ParsePanic
          ELSE LET base == ParseArgument(Tail(prefix.rest), << >>)
               IN IF base.st # "ok" \/ KindAt(base.rest, 1) # "CloseParen" THEN ParsePanic
                  ELSE Parsed(PrefixFrag(prefix.val, base.val), Tail(base.rest))
  ELSE IF name \in {"replace", "replaceAll"}
  THEN LET base == ParseArgument(src, << >>)
       IN IF base.st # "ok" THEN ParsePanic
          ELSE LET rest == base.rest
               IN IF /\ KindAt(rest, 1) = "Slash"
                     /\ KindAt(rest, 2) = "Literal"
                     /\ KindAt(rest, 3) = "Slash"
                     /\ KindAt(rest, 4) = "Literal"
                     /\ KindAt(rest, 5) = "CloseParen"
                     /\ RegexNew(rest[2].text) # None
                  THEN Parsed(ReplaceFrag(base.val, rest[2].text, rest[4].text,
                                          name = "replaceAll"),
                              SubSeq(rest, 6, Len(rest)))
                  ELSE ParsePanic
  ELSE ParsePanic

\* PrettyDescriptor::parse_argument, with the fragments read so far.
ParseArgument(src, fragments) ==
  IF src = << >> THEN ParsePanic
  ELSE IF Head(src).kind \in {"Slash", "CloseParen"} THEN Parsed(fragments, src)
  ELSE IF Head(src).kind = "OpenParen" THEN ParsePanic
  ELSE LET frag == ParseExpression(src)
       IN IF frag.st = "ok" THEN ParseArgument(frag.rest, Append(fragments, frag.val))
          ELSE ParsePanic

\* The loop of PrettyDescriptor::parse over the tokens.
RECURSIVE ParseTokens(_, _)
ParseTokens(src, fragments) ==
  LET frag == ParseExpression(src)
  IN IF frag.st = "end" THEN Some(fragments)
     ELSE IF frag.st = "panic" THEN None
     ELSE ParseTokens(frag.rest, Append(fragments, frag.val))

\* PrettyDescriptor::parse: the fragments, None when it panics.
PrettyParse(pattern) ==
  LET tokens == Lex(pattern)
  IN IF tokens = None THEN None ELSE ParseTokens(tokens[1], << >>)

\* A serde_json array or object: an array holds values (their key is not
\* read), an object holds entries, in the order the map iterates them.
Container(k, ty, items) == [key |-> k, type |-> ty, items |-> items]

\* ExtraIter::join over the texts the mapper gives: the first text, then
\* `for next in self.next()`, a loop over one Option, which appends the
\* deliminator and the second text if there is one and ends.
Join(texts, deliminator) ==
  IF texts = << >> THEN ""
  ELSE texts[1] \o (IF Len(texts) >= 2 THEN deliminator \o texts[2] ELSE "")

\* pretty_value that writes a string as JSON does, between quotes.
PrettyValueQuoted(value) ==
  IF value.type = "string" THEN "\"" \o value.str \o "\""
  ELSE IF value.type \in {"null", "array", "object"} THEN ""
  ELSE value.str

\* pretty_value: a string is itself, a number and a boolean are their text
\* (the str of the entry), null is the empty text, an array and an object
\* are the join of what their items give.
RECURSIVE PrettyValue(_)
PrettyValue(value) ==
  IF value.type = "string" THEN value.str
  ELSE IF value.type = "number" THEN value.str
  ELSE IF value.type = "null" THEN ""
  ELSE IF value.type = "bool" THEN value.str
  ELSE IF value.type = "array"
  THEN Join([i \in 1..Len(value.items) |-> PrettyValue(value.items[i])], ", ")
  ELSE Join([i \in 1..Len(value.items) |->
               value.items[i].key \o ": " \o PrettyValue(value.items[i])], ", ")

WhiteSpace == {" ", "\t", "\n", "\r"}

\* str::trim: the white space at the start and at the end is cut.
RECURSIVE TrimStart(_)
TrimStart(s) ==
  IF s # "" /\ SubSeq(s, 1, 1) \in WhiteSpace THEN TrimStart(SubSeq(s, 2, Len(s))) ELSE s
RECURSIVE TrimEnd(_)
TrimEnd(s) ==
  IF s # "" /\ SubSeq(s, Len(s), Len(s)) \in WhiteSpace
  THEN TrimEnd(SubSeq(s, 1, Len(s) - 1)) ELSE s
Trim(s) == TrimEnd(TrimStart(s))

\* Regex::replace whatever `global` says: only the first match is replaced.
RECURSIVE RegexReplaceOnce(_, _, _, _, _)
RegexReplaceOnce(content, i, regex, replacement, global) ==
  IF regex = "" THEN replacement \o SubSeq(content, i, Len(content))
  ELSE IF i + Len(regex) - 1 > Len(content) THEN SubSeq(content, i, Len(content))
  ELSE IF SubSeq(content, i, i + Len(regex) - 1) = regex
  THEN replacement \o SubSeq(content, i + Len(regex), Len(content))
  ELSE SubSeq(content, i, i) \o RegexReplaceOnce(content, i + 1, regex, replacement, global)

\* Regex::replace (global: replace_all) for a regex of literal characters
\* and a replacement without `$`, from position i of content.
RECURSIVE RegexReplace(_, _, _, _, _)
RegexReplace(content, i, regex, replacement, global) ==
  IF regex = ""
  THEN IF i > Len(content) THEN replacement
       ELSE IF global
       THEN replacement \o SubSeq(content, i, i)
              \o RegexReplace(content, i + 1, regex, replacement, global)
       ELSE replacement \o content
  ELSE IF i + Len(regex) - 1 > Len(content) THEN SubSeq(content, i, Len(content))
  ELSE IF SubSeq(content, i, i + Len(regex) - 1) = regex
  THEN replacement \o (IF global
                       THEN RegexReplace(content, i + Len(regex), regex, replacement, global)
                       ELSE SubSeq(content, i + Len(regex), Len(content)))
  ELSE SubSeq(content, i, i) \o RegexReplace(content, i + 1, regex, replacement, global)

RECURSIVE PrintToString(_, _)
RECURSIVE PrintFragment(_, _)

\* The Prefix arm without the trim and without the test: the prefix and the
\* body are always written.
PrintFragmentPrefixAlways(frag, values) ==
  IF frag.kind = "Literal" THEN frag.text
  ELSE IF frag.kind = "Variable"
  THEN LET value == MapGet(values, frag.text)
       IN IF value # None THEN PrettyValue(value[1]) ELSE ""
  ELSE IF frag.kind = "Prefix"
  THEN PrintToString(frag.prefix, values) \o PrintToString(frag.base, values)
  ELSE RegexReplace(PrintToString(frag.base, values), 1, frag.regex, frag.replacement,
                    frag.global)

\* One turn of the loop of PrettyDescriptor::print: what the fragment writes.
PrintFragment(frag, values) ==
  IF frag.kind = "Literal" THEN frag.text
  ELSE IF frag.kind = "Variable"
  THEN LET value == MapGet(values, frag.text)
       IN IF value # None THEN PrettyValue(value[1]) ELSE ""
  ELSE IF frag.kind = "Prefix"
  THEN LET result == PrintToString(frag.base, values)
           trimmed == Trim(result)
       IN IF trimmed # "" THEN PrintToString(frag.prefix, values) \o trimmed ELSE ""
  ELSE RegexReplace(PrintToString(frag.base, values), 1, frag.regex, frag.replacement,
                    frag.global)

\* PrettyDescriptor::print and print_to_string: all that the fragments
\* write, in their order.
PrintToString(fragments, values) ==
  IF fragments = << >> THEN ""
  ELSE PrintFragment(Head(fragments), values) \o PrintToString(Tail(fragments), values)

\* A JSON string: the text between quotes, with the quote, the backslash and
\* the line break escaped.
RECURSIVE JsonEscape(_)
JsonEscape(s) ==
  IF s = "" THEN ""
  ELSE LET c == SubSeq(s, 1, 1)
       IN (IF c = "\"" THEN "\\\"" ELSE IF c = "\\" THEN "\\\\"
           ELSE IF c = "\n" THEN "\\n" ELSE c) \o JsonEscape(SubSeq(s, 2, Len(s)))

\* serde_json::to_writer of a map of scalars, from its i-th entry on.
RECURSIVE JsonEntries(_, _)
JsonEntries(map, i) ==
  IF i > Len(map) THEN ""
  ELSE (IF i > 1 THEN "," ELSE "")
         \o "\"" \o JsonEscape(map[i].key) \o "\":"
         \o (IF map[i].type = "string" THEN "\"" \o JsonEscape(map[i].str) \o "\""
             ELSE IF map[i].type = "null" THEN "null" ELSE map[i].str)
         \o JsonEntries(map, i + 1)
ToJson(map) == "{" \o JsonEntries(map, 1) \o "}"

\* What do_pretty writes for a record before end_line: the pattern printed,
\* or the record as JSON without a pattern.
Render(maybe_pretty, values) ==
  IF maybe_pretty # None THEN PrintToString(maybe_pretty[1], values) ELSE ToJson(values)

\* ------------------------------------------------------ the pipeline of main
\* Regex::is_match for a pattern without metacharacters: the pattern occurs
\* somewhere in the text (the empty pattern occurs in every text).
IsMatch(pattern, text) ==
  \E i \in 1..(Len(text) - Len(pattern) + 1) :
    SubSeq(text, i, i + Len(pattern) - 1) = pattern

\* A Filter: the key, the negation flag and the pattern.
Filter(k, inv, p) == [key |-> k, inverse |-> inv, pattern |-> p]

\* matches where the negation flag also inverts the verdict on a field that
\* is missing or holds no string.
RECURSIVE MatchesFoldNegatesMissing(_, _, _)
MatchesFoldNegatesMissing(sets, line, sum) ==
  IF sets = << >> THEN sum
  ELSE LET next == Head(sets)
           value == MapGet(line, next.key)
           step == IF sum
                   THEN IF value # None /\ AsStr(value[1]) # None
                        THEN IsMatch(next.pattern, AsStr(value[1])[1]) # next.inverse
                        ELSE next.inverse
                   ELSE FALSE
       IN MatchesFoldNegatesMissing(Tail(sets), line, step)

\* FilterSet::matches: the fold over the filters, from `true`.
RECURSIVE MatchesFold(_, _, _)
MatchesFold(sets, line, sum) ==
  IF sets = << >> THEN sum
  ELSE LET next == Head(sets)
           value == MapGet(line, next.key)
           step == IF sum
                   THEN IF value # None
                        THEN IF AsStr(value[1]) # None
                             THEN IsMatch(next.pattern, AsStr(value[1])[1]) # next.inverse
                             ELSE FALSE
                        ELSE FALSE
                   ELSE FALSE
       IN MatchesFold(Tail(sets), line, step)
Matches(sets, line) == MatchesFold(sets, line, TRUE)

\* do_range with RangeInclusive for Range: the maximum is accepted.
RangeContainsInclusive(r, time) ==
  IF r.min = None /\ r.max = None THEN TRUE
  ELSE IF r.max = None THEN r.min[1] <= time
  ELSE IF r.min = None THEN time <= r.max[1]
  ELSE r.min[1] <= time /\ time <= r.max[1]

\* The predicate do_range builds: none, `min..`, `..max` or `min..max`.
RangeContains(r, time) ==
  IF r.min = None /\ r.max = None THEN TRUE
  ELSE IF r.max = None THEN r.min[1] <= time
  ELSE IF r.min = None THEN time < r.max[1]
  ELSE r.min[1] <= time /\ time < r.max[1]

\* The predicate do_filter builds: no filter stage without a FilterSet.
FilterAccepts(f, line) == IF f = None THEN TRUE ELSE Matches(f[1], line.value)

MainLines == {ValidLine(t) : t \in 1..MaxTime}
MainRanges ==
  {[min |-> None, max |-> None], [min |-> Some(2), max |-> Some(MaxTime)]}
MainFilters == {None, Some(<< Filter("time", TRUE, "0:01") >>)}

\* main() after Arguments::parse and LogFile::new of every source.
MainInit ==
  /\ files \in UNION {FileVectors(MainLines, n, MaxTotal) : n \in 0..MaxFiles}
  /\ logs = [i \in 1..Len(files) |-> LogFileNew(i, files[i])]
  /\ pc = "new"
  /\ out = << >>
  /\ last = None
  /\ calls = 0
  /\ fault = ""
  /\ ret = FALSE
  /\ nread = 0
  /\ range \in MainRanges
  /\ filter \in MainFilters
  /\ pretty = None
  /\ args = NoArgs
  /\ argv = << >>
  /\ inflight = None
  /\ sink = << >>
  /\ rejected = << >>
  /\ NoChunks

\* for_each asks the filter chain for a record and the chain asks the
\* Aggregator: one Aggregator::next.  None ends the loop.
ForEachPull ==
  /\ pc = "pull"
  /\ inflight = None
  /\ calls' = calls + 1
  /\ IF logs = << >>
     THEN /\ last' = None
          /\ pc' = "done"
          /\ UNCHANGED << logs, out, fault, nread, inflight >>
     ELSE IF PeekPanics(logs) \/ TakePanics(logs[MinIndex(logs)])
     THEN /\ pc' = "panic"
          /\ fault' = IF PeekPanics(logs) THEN "peek" ELSE "take"
          /\ UNCHANGED << logs, out, last, nread, inflight >>
     ELSE LET r == AggNext(logs)
          IN /\ logs' = r.logs
             /\ last' = r.result
             /\ out' = Append(out, r.result[1])
             /\ nread' = nread + ValidAmong(logs[r.index].src, r.read)
             /\ inflight' = r.result
             /\ pc' = "range"
             /\ UNCHANGED fault
  /\ UNCHANGED << files, ret, cfgVars, chunkVars, sink, rejected >>

\* The closure of do_range on the record in flight.
RangeStage ==
  /\ pc = "range"
  /\ IF RangeContains(range, inflight[1].time)
     THEN /\ pc' = "filter"
          /\ UNCHANGED << inflight, rejected >>
     ELSE /\ pc' = "pull"
          /\ rejected' = Append(rejected, inflight[1])
          /\ inflight' = None
  /\ UNCHANGED << files, logs, out, last, calls, fault, ret, nread, cfgVars, chunkVars, sink >>

\* The closure of do_filter that lets a record it rejects through.
FilterStageKeepsRejected ==
  /\ pc = "filter"
  /\ pc' = "print"
  /\ UNCHANGED << files, logs, out, last, calls, fault, ret, nread, cfgVars, chunkVars, sink,
                  inflight, rejected >>

\* The closure of do_filter on the record in flight.
FilterStage ==
  /\ pc = "filter"
  /\ IF FilterAccepts(filter, inflight[1])
     THEN /\ pc' = "print"
          /\ UNCHANGED << inflight, rejected >>
     ELSE /\ pc' = "pull"
          /\ rejected' = Append(rejected, inflight[1])
          /\ inflight' = None
  /\ UNCHANGED << files, logs, out, last, calls, fault, ret, nread, cfgVars, chunkVars, sink >>

\* do_pretty's closure, first statement: the record is rendered (as text or
\* as JSON) and written to the target.
DoPretty ==
  /\ pc = "print"
  /\ sink' = Append(sink, [line |-> inflight[1],
                           text |-> Render(pretty, inflight[1].value),
                           ended |-> FALSE])
  /\ pc' = "end_line"
  /\ UNCHANGED << files, logs, out, last, calls, fault, ret, nread, cfgVars, chunkVars,
                  inflight, rejected >>

\* do_pretty's closure, second statement: target.end_line(); the record is
\* dropped when the closure returns.
EndLine ==
  /\ pc = "end_line"
  /\ sink' = [sink EXCEPT ![Len(sink)].ended = TRUE]
  /\ inflight' = None
  /\ pc' = "pull"
  /\ UNCHANGED << files, logs, out, last, calls, fault, ret, nread, cfgVars, chunkVars, rejected >>

MainNext ==
  AggregatorNew \/ ForEachPull \/ RangeStage \/ FilterStage \/ DoPretty \/ EndLine

MainSpec == MainInit /\ [][MainNext]_vars

\* ------------------------------------------------ one Source Stream alone
\* A LogFile driven through its own operations in any order: advance() and
\* take() are public, and a caller may call them when it should not.
StreamLines ==
  {ValidLine(t) : t \in 1..MaxTime}
    \cup {Malformed, NonObject, MissingTime, NonStringTime, BadTime}

StreamInit ==
  /\ files \in {<< f >> : f \in SeqsUpTo(StreamLines, MaxLines)}
  /\ logs = << LogFileNew(1, files[1]) >>
  /\ pc = "stream"
  /\ out = << >>
  /\ last = None
  /\ calls = 0
  /\ fault = ""
  /\ ret = FALSE
  /\ nread = 0
  /\ NoPipeline
  /\ NoChunks

\* log.advance()
StreamAdvance ==
  /\ pc = "stream"
  /\ calls < Len(files[1]) + 3
  /\ LET r == Advance(logs[1])
     IN /\ logs' = << r.self >>
        /\ ret' = r.ret
  /\ calls' = calls + 1
  /\ UNCHANGED << files, pc, out, last, fault, nread, cfgVars, chunkVars, pipeVars >>

\* log.take()
StreamTake ==
  /\ pc = "stream"
  /\ IF TakePanics(logs[1])
     THEN /\ pc' = "panic"
          /\ fault' = "take"
          /\ UNCHANGED << logs, out, last >>
     ELSE LET r == Take(logs[1])
          IN /\ logs' = << r.self >>
             /\ out' = Append(out, r.line)
             /\ last' = Some(r.line)
             /\ UNCHANGED << pc, fault >>
  /\ UNCHANGED << files, calls, ret, nread, cfgVars, chunkVars, pipeVars >>

StreamNext == StreamAdvance \/ StreamTake

StreamSpec == StreamInit /\ [][StreamNext]_vars

\* ------------------------------------------------- what the inputs contain
\* A valid line: a JSON object whose `time` is a string that parses.
IsValid(raw) ==
  /\ raw.json = "object"
  /\ \E i \in 1..Len(raw.map) :
       /\ raw.map[i].key = "time"
       /\ raw.map[i].type = "string"
       /\ \E t \in 0..9 : raw.map[i].str = TimeTexts[t]

\* The time a valid line carries.
TimeOf(raw) ==
  CHOOSE t \in 0..9 : \E i \in 1..Len(raw.map) :
    raw.map[i].key = "time" /\ raw.map[i].str = TimeTexts[t]

\* The record of line k (from 1) of file f.
Expected(f, k) ==
  [value |-> files[f][k].map, time |-> TimeOf(files[f][k]),
   src |-> [file |-> FileName(f), line |-> k - 1]]

ValidPositions == {fk \in (1..Len(files)) \X (1..MaxLines + 1) :
                     fk[2] <= Len(files[fk[1]]) /\ IsValid(files[fk[1]][fk[2]])}
ExpectedSet == {Expected(fk[1], fk[2]) : fk \in ValidPositions}
TotalValid == Cardinality(ValidPositions)

\* Every file's valid records are non-decreasing in time.
FilesSorted ==
  \A fk, gl \in ValidPositions :
    fk[1] = gl[1] /\ fk[2] < gl[2] => Expected(fk[1], fk[2]).time <= Expected(gl[1], gl[2]).time

Range(s) == {s[i] : i \in 1..Len(s)}
Exhausted == pc = "pull" /\ logs = << >>
\* The valid lines the active streams have not read yet.
Unread ==
  UNION {{Expected(lf[2], k) :
            k \in {n \in 1..Len(files[lf[2]]) :
                     /\ n > Len(files[lf[2]]) - Len(logs[lf[1]].src)
                     /\ IsValid(files[lf[2]][n])}} :
           lf \in {p \in (1..Len(logs)) \X (1..Len(files)) :
                     FileName(p[2]) = logs[p[1]].name}}
Buffered == {logs[i].next[1] : i \in {j \in 1..Len(logs) : logs[j].next # None}}

\* ------------------------------------------------------------------ claims
\* C1: when every file's valid records are non-decreasing in time, the
\* records returned by successive next() calls are non-decreasing in time.
C1_GloballySorted ==
  FilesSorted => \A i \in 1..(Len(out) - 1) : out[i].time <= out[i + 1].time

\* C1 witness: two sorted files were interleaved (f1, f2, f1 or f2, f1, f2)
\* with strictly growing times.
C1_Witness ==
  /\ FilesSorted
  /\ Len(out) >= 3
  /\ out[1].src.file # out[2].src.file
  /\ out[2].src.file # out[3].src.file
  /\ out[1].time < out[2].time
  /\ out[2].time < out[3].time

\* C2: the records returned until exhaustion are exactly the valid lines of
\* all files, each once: nothing is duplicated, invented or taken from an
\* invalid line, and at exhaustion nothing is missing.
C2_ExactUnion ==
  LET all == ExpectedSet
  IN /\ \A i, j \in 1..Len(out) : out[i] = out[j] => i = j
     /\ Range(out) \subseteq all
     /\ Range(out) \cup Buffered \cup Unread = all
     /\ Exhausted => Range(out) = all /\ Len(out) = TotalValid

\* C2 witness: exhaustion of two files holding valid and invalid lines.
C2_Witness ==
  /\ Exhausted
  /\ Len(out) >= 2
  /\ TotalLines(files) > Len(out)
  /\ \E i, j \in 1..Len(out) : out[i].src.file # out[j].src.file

\* C3: two records of one file are returned in the order of the file,
\* whether or not the file is sorted by time: each returned record is the
\* line at its position, and positions grow along the output per file.
C3_FileOrderKept ==
  /\ Range(out) \subseteq ExpectedSet
  /\ \A i, j \in 1..Len(out) :
       i < j /\ out[i].src.file = out[j].src.file => out[i].src.line < out[j].src.line

\* C3 witness: three records of one file, the first two of the same time
\* and the third older, returned in file order.
C3_Witness ==
  /\ Len(out) >= 3
  /\ out[1].src.file = out[2].src.file
  /\ out[2].src.file = out[3].src.file
  /\ out[1].time = out[2].time
  /\ out[2].time > out[3].time

\* C4: a pull on a non-empty active set returns the lookahead of the first
\* stream, in the order of the active set, whose time is minimal.
C4_MinFirstWins ==
  [][pc = "pull" /\ logs # << >> /\ calls' = calls + 1 =>
       \E i \in 1..Len(logs) :
         /\ last' = logs[i].next
         /\ \A j \in 1..Len(logs) : Time(logs[j]) >= Time(logs[i])
         /\ \A j \in 1..(i - 1) : Time(logs[j]) > Time(logs[i])]_vars

\* C4 witness: two streams tied on the minimal time and both were returned.
C4_Witness ==
  /\ Len(out) >= 2
  /\ out[1].time = out[2].time
  /\ out[1].src.file # out[2].src.file

\* C5: after construction and after every pull every active stream is not
\* completed and holds a lookahead record.
C5_ActiveHaveLookahead ==
  pc = "pull" =>
    \A i \in 1..Len(logs) : ~logs[i].is_completed /\ logs[i].next # None

\* C5 witness: after a pull, one stream is still active and one was evicted.
C5_Witness ==
  /\ pc = "pull"
  /\ calls > 0
  /\ Len(logs) >= 1
  /\ Len(logs) < Len(files)

\* C6: neither construction nor any pull panics in time() or take().
C6_NoPanic == pc # "panic" /\ fault = ""

\* C6 witness: a run over an empty file and a file of invalid lines only
\* reached exhaustion.
C6_Witness ==
  /\ Exhausted
  /\ calls > 0
  /\ \E f, g \in 1..Len(files) :
       /\ files[f] = << >>
       /\ files[g] # << >>
       /\ \A k \in 1..Len(files[g]) : ~IsValid(files[g][k])

\* C7: next() returns None exactly when the active set is empty: the first
\* TotalValid calls return a record, every later call returns None.
C7_NoneWhenEmpty ==
  pc = "pull" /\ calls > 0 =>
    /\ (last = None) <=> (calls > TotalValid)
    /\ Len(out) = IF calls > TotalValid THEN TotalValid ELSE calls
    /\ (logs = << >>) <=> (Len(out) = TotalValid)

\* C7 witness: two records were returned, then None twice.
C7_Witness ==
  /\ TotalValid >= 2
  /\ calls >= TotalValid + 2
  /\ last = None

\* The number of invalid lines at the head of a sequence of lines.
RECURSIVE LeadingInvalid(_)
LeadingInvalid(rest) ==
  IF rest = << >> \/ IsValid(Head(rest)) THEN 0 ELSE 1 + LeadingInvalid(Tail(rest))

\* C8: advance() on a stream that is not completed skips the invalid lines
\* at the head of the unread input; it buffers the first valid line and
\* returns true, or reaches the end of input, completes and returns false.
\* Nothing panics and nothing else ends the stream.
C8_AdvanceSkipsInvalid ==
  [][pc = "stream" /\ calls' = calls + 1 /\ ~logs[1].is_completed =>
       LET rest == logs[1].src
           k == LeadingInvalid(rest)
           pos == Len(files[1]) - Len(rest) + k + 1
       IN /\ pc' = "stream"
          /\ fault' = ""
          /\ IF k < Len(rest)
             THEN /\ ret' = TRUE
                  /\ ~logs'[1].is_completed
                  /\ logs'[1].next = Some(Expected(1, pos))
                  /\ logs'[1].src = SubSeq(rest, k + 2, Len(rest))
             ELSE /\ ret' = FALSE
                  /\ logs'[1].is_completed
                  /\ logs'[1].next = logs[1].next
                  /\ logs'[1].src = << >>]_vars

\* C8 witness: advance() skipped two invalid lines of different kinds and
\* buffered the valid third line.
C8_Witness ==
  /\ pc = "stream"
  /\ ret = TRUE
  /\ logs[1].next # None
  /\ logs[1].next[1].src.line = 2
  /\ ~IsValid(files[1][1])
  /\ ~IsValid(files[1][2])
  /\ files[1][1].json # files[1][2].json

\* C9: a completed stream stays completed, and advance() on it returns
\* false and changes nothing of the stream: no line read, no change to the
\* line counter or to the buffered record.
C9_CompletionTerminal ==
  [][pc = "stream" /\ logs[1].is_completed =>
       /\ logs'[1].is_completed
       /\ calls' = calls + 1 => ret' = FALSE /\ logs' = logs /\ pc' = pc]_vars

\* C9 witness: advance() was called on a stream already completed; the
\* line counter shows the end of input was read once.
C9_Witness ==
  /\ pc = "stream"
  /\ logs[1].is_completed
  /\ TotalValid >= 1
  /\ calls >= TotalValid + 3
  /\ ret = FALSE
  /\ logs[1].line = Len(files[1]) + 1

\* The records in hand: read from an input, neither written and ended nor
\* rejected yet.
Ended == Cardinality({i \in 1..Len(sink) : sink[i].ended})
InHand == nread - Ended - Len(rejected)

\* C10: every stream buffers at most one record and at most one record is
\* in flight, so the records in hand never exceed the active streams plus
\* one; when a record is pulled, every record pulled before it was either
\* written and ended or rejected.
C10_BoundedBuffering ==
  /\ \A i \in 1..Len(logs) : Len(logs[i].next) <= 1
  /\ Len(inflight) <= 1
  /\ InHand <= Len(logs) + 1
  /\ InHand = Cardinality(Buffered) + Len(inflight)
  /\ pc = "pull" =>
       /\ inflight = None
       /\ Ended = Len(sink)
       /\ Len(out) = Len(sink) + Len(rejected)

\* C10 witness: one record was rejected, the next is written but not ended
\* and a third waits in the buffer of its stream.
C10_Witness ==
  /\ pc = "end_line"
  /\ Len(rejected) >= 1
  /\ Len(logs) >= 1
  /\ InHand = Len(logs) + 1

\* ------------------------------------------------------- the chunked sink
MaxThreshold == 2
MaxRecords == 3
MaxWrites == 3

\* No input files and no Aggregator: a run that drives one component alone.
NoInputs ==
  /\ files = << >>
  /\ logs = << >>
  /\ out = << >>
  /\ last = None
  /\ calls = 0
  /\ fault = ""
  /\ ret = FALSE
  /\ nread = 0

\* The position of the last "/" of path at or before i, 0 if there is none.
RECURSIVE LastSlash(_, _)
LastSlash(path, i) ==
  IF i = 0 \/ SubSeq(path, i, i) = "/" THEN i ELSE LastSlash(path, i - 1)

\* Path::file_name and Path::with_file_name, for a path of plain components.
PathFileName(path) == SubSeq(path, LastSlash(path, Len(path)) + 1, Len(path))
WithFileName(path, name) == SubSeq(path, 1, LastSlash(path, Len(path))) \o name

ChunkInfo(v, u) == [value |-> v, unit |-> u]

\* What happened to a file or a sink: "create" (File::create), "close" (the
\* sink was dropped: flushed, the gzip trailer written, the file closed),
\* "write" and "end_line" (the calls made on the ChunkedWriter).
Event(o, p) == [op |-> o, path |-> p]

\* next_chunk that names the file after the index already incremented.
NextChunkIndexAfter(st) ==
  LET self == st.cw
      index == self.chunk_index + 1
      ext == IF self.zipped THEN ".log.gz" ELSE ".log"
      file_name == PathFileName(self.base_path) \o "." \o ToString(index) \o ext
      file_path == WithFileName(self.base_path, file_name)
      created == Append(st.disk, [path |-> file_path, text |-> "", open |-> TRUE])
      opened == Append(st.events, Event("create", file_path))
      old == self.inner
  IN [cw |-> [self EXCEPT !.chunk_index = index, !.inner = Len(created)],
      disk |-> IF old = 0 THEN created ELSE [created EXCEPT ![old].open = FALSE],
      events |-> IF old = 0 THEN opened
                 ELSE Append(opened, Event("close", st.disk[old].path))]

\* ChunkedWriter::next_chunk.  The file of the next chunk is created while
\* the sink of the outgoing chunk is still held by `inner`; the assignment to
\* `inner` then drops the outgoing sink, which flushes and closes it (the
\* placeholder of the constructor has no file).  `inner` is the position in
\* disk of the file the open sink writes to, 0 for the placeholder.
NextChunk(st) ==
  LET self == st.cw
      index == self.chunk_index
      ext == IF self.zipped THEN ".log.gz" ELSE ".log"
      file_name == PathFileName(self.base_path) \o "." \o ToString(index) \o ext
      file_path == WithFileName(self.base_path, file_name)
      created == Append(st.disk, [path |-> file_path, text |-> "", open |-> TRUE])
      opened == Append(st.events, Event("create", file_path))
      old == self.inner
  IN [cw |-> [self EXCEPT !.chunk_index = index + 1, !.inner = Len(created)],
      disk |-> IF old = 0 THEN created ELSE [created EXCEPT ![old].open = FALSE],
      events |-> IF old = 0 THEN opened
                 ELSE Append(opened, Event("close", st.disk[old].path))]

\* ChunkedWriter::new
ChunkedWriterNew(base_path, chunk_info, zipped) ==
  NextChunk([cw |-> [base_path |-> base_path, chunk_info |-> chunk_info,
                     zipped |-> zipped, chunk_index |-> 0, written |-> 0,
                     inner |-> 0],
             disk |-> << >>,
             events |-> << >>])

\* The number of newline bytes of buf.
RECURSIVE Newlines(_)
Newlines(buf) ==
  IF buf = "" THEN 0
  ELSE (IF SubSeq(buf, 1, 1) = "\n" THEN 1 ELSE 0) + Newlines(SubSeq(buf, 2, Len(buf)))

\* write that opens the next chunk itself once the bytes counted reach the
\* threshold.
WriteRollingOver(st, buf) ==
  LET taken == [st EXCEPT !.disk[st.cw.inner].text = @ \o buf,
                          !.cw.written = IF st.cw.chunk_info.unit = "Bytes"
                                         THEN @ + Len(buf) ELSE @,
                          !.events = Append(@, Event("write", st.disk[st.cw.inner].path))]
  IN IF st.cw.chunk_info.unit = "Bytes" /\ taken.cw.written >= taken.cw.chunk_info.value
     THEN [NextChunk(taken) EXCEPT !.cw.written = 0]
     ELSE taken

\* write that also counts, in the lines unit, the newline bytes of the buffer.
WriteCountingNewlines(st, buf) ==
  [st EXCEPT !.disk[st.cw.inner].text = @ \o buf,
             !.cw.written = IF st.cw.chunk_info.unit = "Bytes" THEN @ + Len(buf)
                            ELSE @ + Newlines(buf),
             !.events = Append(@, Event("write", st.disk[st.cw.inner].path))]

\* ChunkedWriter::write: the open sink takes the buffer; the bytes it took
\* are counted in the bytes unit only.
ChunkedWriterWrite(st, buf) ==
  [st EXCEPT !.disk[st.cw.inner].text = @ \o buf,
             !.cw.written = IF st.cw.chunk_info.unit = "Bytes" THEN @ + Len(buf) ELSE @,
             !.events = Append(@, Event("write", st.disk[st.cw.inner].path))]

\* end_line that hands the line terminator to the open sink without counting it.
EndLineUncounted(st) ==
  LET nl == [st EXCEPT !.disk[st.cw.inner].text = @ \o "\n",
                       !.events = Append(@, Event("end_line", st.disk[st.cw.inner].path))]
      counted == IF st.cw.chunk_info.unit = "Lines"
                 THEN [nl EXCEPT !.cw.written = @ + 1] ELSE nl
  IN IF counted.cw.written >= counted.cw.chunk_info.value
     THEN [NextChunk(counted) EXCEPT !.cw.written = 0]
     ELSE counted

\* ChunkedWriter::end_line: the line terminator goes through write; in the
\* lines unit the count grows by one; at the threshold the next chunk is
\* opened and the count starts again.
ChunkedWriterEndLine(st) ==
  LET nl == ChunkedWriterWrite(st, "\n")
      ended == [nl EXCEPT !.events =
                  Append(st.events, Event("end_line", st.disk[st.cw.inner].path))]
      counted == IF st.cw.chunk_info.unit = "Lines"
                 THEN [ended EXCEPT !.cw.written = @ + 1] ELSE ended
  IN IF counted.cw.written >= counted.cw.chunk_info.value
     THEN [NextChunk(counted) EXCEPT !.cw.written = 0]
     ELSE counted

\* The number of events of one kind.
RECURSIVE CountOp(_, _)
CountOp(es, o) ==
  IF es = << >> THEN 0
  ELSE (IF Head(es).op = o THEN 1 ELSE 0) + CountOp(Tail(es), o)

ChunkBases == {"out", "dir/out"}
ChunkInfos == {ChunkInfo(v, u) : v \in 0..MaxThreshold, u \in {"Bytes", "Lines"}}
ChunkBufs == {"a", "b\nc"}

\* handle_output with --chunked: the ChunkedWriter right after construction.
ChunkInit ==
  /\ NoInputs
  /\ NoPipeline
  /\ pc = "chunk"
  /\ \E base_path \in ChunkBases, chunk_info \in ChunkInfos, zipped \in BOOLEAN :
       LET st == ChunkedWriterNew(base_path, chunk_info, zipped)
       IN /\ cw = st.cw
          /\ disk = st.disk
          /\ events = st.events

\* A part of the rendering of a record is written to the ChunkedWriter.
ChunkWrite ==
  /\ pc = "chunk"
  /\ CountOp(events, "write") < MaxWrites
  /\ \E buf \in ChunkBufs :
       LET st == ChunkedWriterWrite([cw |-> cw, disk |-> disk, events |-> events], buf)
       IN /\ cw' = st.cw
          /\ disk' = st.disk
          /\ events' = st.events
  /\ UNCHANGED << files, logs, pc, out, last, calls, fault, ret, nread, cfgVars, pipeVars >>

\* The record is ended: ChunkedWriter::end_line.
ChunkEndLine ==
  /\ pc = "chunk"
  /\ CountOp(events, "end_line") < MaxRecords
  /\ LET st == ChunkedWriterEndLine([cw |-> cw, disk |-> disk, events |-> events])
     IN /\ cw' = st.cw
        /\ disk' = st.disk
        /\ events' = st.events
  /\ UNCHANGED << files, logs, pc, out, last, calls, fault, ret, nread, cfgVars, pipeVars >>

ChunkNext == ChunkWrite \/ ChunkEndLine

ChunkSpec == ChunkInit /\ [][ChunkNext]_vars

\* ---------------------------------------------- claims on the chunked sink
\* The rollovers made so far: the files created after the first one.
Rollovers == CountOp(events, "create") - 1

\* The records ended so far.
RecordsEnded == CountOp(events, "end_line")

\* Whether text holds part somewhere.
Contains(text, part) ==
  \E i \in 1..(Len(text) - Len(part) + 1) : SubSeq(text, i, i + Len(part) - 1) = part

\* C11: with a threshold T >= 1 counted in records, after n records were
\* ended with end_line the writer has made exactly floor(n / T) rollovers
\* and the count of the active chunk is n mod T, whatever newline bytes the
\* renderings written in between contain.
C11_RecordsRollover ==
  (pc = "chunk" /\ cw.chunk_info.unit = "Lines" /\ cw.chunk_info.value >= 1) =>
    /\ Rollovers = RecordsEnded \div cw.chunk_info.value
    /\ cw.written = RecordsEnded % cw.chunk_info.value

\* Three records ended under a threshold of two records, one of them
\* rendered with a newline byte inside: one rollover, one record counted.
C11_Witness ==
  /\ pc = "chunk"
  /\ cw.chunk_info = ChunkInfo(2, "Lines")
  /\ RecordsEnded = 3
  /\ Rollovers = 1
  /\ cw.written = 1
  /\ \E k \in 1..Len(disk) : Contains(disk[k].text, "b\nc")

\* C12: in the bytes unit, ending a record rolls the chunk over exactly when
\* the bytes written to the active chunk, the line terminator included, have
\* reached the threshold T (at T - 1 bytes it does not), and the count is 0
\* after a rollover and the bytes of the active chunk otherwise.
C12_BytesRollover ==
  [][(pc = "chunk" /\ cw.chunk_info.unit = "Bytes"
        /\ CountOp(events', "end_line") = CountOp(events, "end_line") + 1) =>
       LET total == Len(disk[cw.inner].text) + 1
           rolled == Len(disk') = Len(disk) + 1
       IN /\ rolled <=> total >= cw.chunk_info.value
          /\ Len(disk') \in {Len(disk), Len(disk) + 1}
          /\ cw'.written = IF rolled THEN 0 ELSE total]_vars

\* A chunk was rolled over at exactly T = 2 bytes, and the record ended
\* after it left the active chunk at T - 1 bytes without a rollover.
C12_Witness ==
  /\ pc = "chunk"
  /\ cw.chunk_info = ChunkInfo(2, "Bytes")
  /\ Len(disk) = 2
  /\ disk[1].text = "a\n"
  /\ disk[2].text = "\n"
  /\ cw.written = 1

\* C13: when the file of a chunk is created, the sink of every earlier chunk
\* has already been flushed and closed.
C13_ClosedBeforeNextOpened ==
  pc = "chunk" =>
    \A p \in 1..Len(events) :
      events[p].op = "create" =>
        \A q \in 1..(p - 1) :
          events[q].op = "create" =>
            \E c \in (q + 1)..(p - 1) : events[c] = Event("close", events[q].path)

\* C14: the k-th file the writer creates (k from 0) is <base>.<k>.log, or
\* <base>.<k>.log.gz when zipped, and the chunk index is the number of the
\* files created so far: no index is skipped or used twice.
C14_ChunkNumbering ==
  pc = "chunk" =>
    /\ cw.chunk_index = Len(disk)
    /\ \A k \in 1..Len(disk) :
         disk[k].path = cw.base_path \o "." \o ToString(k - 1)
                          \o (IF cw.zipped THEN ".log.gz" ELSE ".log")

\* The third chunk of a zipped output below a directory.
C14_Witness ==
  /\ pc = "chunk"
  /\ cw.zipped
  /\ Len(disk) = 3
  /\ disk[3].path = "dir/out.2.log.gz"
  /\ disk[1].path = "dir/out.0.log.gz"

\* ------------------------------------------------------ the filter clauses
MaxFilters == 2

\* \w of the regex crate, over ASCII.
WordChars ==
  Chars("abcdefghijklmnopqrstuvwxyz") \cup Chars("ABCDEFGHIJKLMNOPQRSTUVWXYZ")
    \cup Chars("0123456789_")

\* The first position at or after i of s that holds no word character.
RECURSIVE WordEnd(_, _)
WordEnd(s, i) == IF CharAt(s, i) \in WordChars THEN WordEnd(s, i + 1) ELSE i

\* PATTERN.captures: ^(%(\w+)(!)?=)?(.*)$ yields the groups 2, 3 and 4.  `.`
\* matches no line break and `$` only the end of the text, so a text with a
\* line break has no match.  The first group is taken when it can be: "!" and
\* "=" are no word characters, so the run of word characters is read whole.
FilterCaptures(base) ==
  IF "\n" \in Chars(base) THEN None
  ELSE LET e == WordEnd(base, 2)
           eq == IF CharAt(base, e) = "!" THEN e + 1 ELSE e
       IN IF CharAt(base, 1) = "%" /\ e > 2 /\ CharAt(base, eq) = "="
          THEN Some([key |-> Some(SubSeq(base, 2, e - 1)),
                     bang |-> IF eq > e THEN Some("!") ELSE None,
                     body |-> SubSeq(base, eq + 1, Len(base))])
          ELSE Some([key |-> None, bang |-> None, body |-> base])

\* FilterSet::parse that never reads the "!".
ParseFilterNoNegation(base) ==
  LET captures == FilterCaptures(base)
  IN IF captures = None THEN None
     ELSE LET key == IF captures[1].key = None THEN "message" ELSE captures[1].key[1]
              pattern == RegexNew(captures[1].body)
          IN IF pattern = None THEN None
             ELSE Some([key |-> key, inverse |-> FALSE, pattern |-> pattern[1]])

\* FilterSet::parse: the Filter, None when one of the `expect`s panics.
ParseFilter(base) ==
  LET captures == FilterCaptures(base)
  IN IF captures = None THEN None
     ELSE LET key == IF captures[1].key = None THEN "message" ELSE captures[1].key[1]
              inverse == captures[1].bang # None
              pattern == RegexNew(captures[1].body)
          IN IF pattern = None THEN None
             ELSE Some(Filter(key, inverse, pattern[1]))

\* One option of the command line and the value that follows it.
Arg(f, v) == [flag |-> f, value |-> v]

FilterTexts ==
  {"%level!=DEBUG", "%level=DEBUG", "%stack=", "%stack!=", "boom", "%message=boom",
   "%level", "%a.b=x", "", "a\nb", "%level=("}

\* A record of the merged stream, by the entries that follow its time.
Record(entries) ==
  MkLine(<< Entry("time", "string", TimeStr(1)) >> \o entries, 1, FileName(1), 0)

FilterRecords ==
  {Record(<< Entry("level", "string", "DEBUG") >>),
   Record(<< Entry("level", "string", "INFO") >>),
   Record(<< Entry("message", "string", "boom") >>),
   Record(<< Entry("stack", "number", "42") >>),
   Record(<< Entry("stack", "string", "DEBUG at boom") >>),
   Record(<< Entry("level", "string", "DEBUG"), Entry("message", "string", "boom") >>)}

\* Arguments::parse before its first --filter option, with one record of the
\* merged stream on its way to the closure of do_filter.  Without a --filter
\* option the FilterSet is absent; a FilterSet built with no Filter in it is
\* a value of the type too.
FilterInit ==
  /\ NoInputs
  /\ NoChunks
  /\ range = [min |-> None, max |-> None]
  /\ pretty = None
  /\ args = NoArgs
  /\ sink = << >>
  /\ rejected = << >>
  /\ inflight \in {Some(r) : r \in FilterRecords}
  /\ argv \in SeqsUpTo({Arg("--filter", t) : t \in FilterTexts}, MaxFilters)
  /\ filter \in IF argv = << >> THEN {None, Some(<< >>)} ELSE {None}
  /\ pc = IF argv = << >> THEN "filter" ELSE "args"

\* Arguments::parse, the arm of "-f" | "--filter".
ParseFilterArg ==
  /\ pc = "args"
  /\ argv # << >>
  /\ Head(argv).flag = "--filter"
  /\ LET parsed == ParseFilter(Head(argv).value)
     IN IF parsed = None
        THEN /\ pc' = "panic"
             /\ fault' = "filter"
             /\ UNCHANGED << filter, argv >>
        ELSE /\ filter' = IF filter # None THEN Some(Append(filter[1], parsed[1]))
                          ELSE Some(<< parsed[1] >>)
             /\ argv' = Tail(argv)
             /\ pc' = IF Tail(argv) = << >> THEN "filter" ELSE "args"
             /\ UNCHANGED fault
  /\ UNCHANGED << files, logs, out, last, calls, ret, nread, range, pretty, args,
                  pipeVars, chunkVars >>

FilterNext == ParseFilterArg \/ FilterStage

FilterSpec == FilterInit /\ [][FilterNext]_vars

\* ------------------------------------------------ the time range by itself
RangeTimes == 0..MaxTime
RangeBounds == {None} \cup {Some(t) : t \in RangeTimes}

\* One record of the merged stream on its way to the closure of do_range,
\* under every range of the bounded times.
RangeInit ==
  /\ NoInputs
  /\ NoChunks
  /\ range \in [min : RangeBounds, max : RangeBounds]
  /\ filter = None
  /\ pretty = None
  /\ args = NoArgs
  /\ argv = << >>
  /\ sink = << >>
  /\ rejected = << >>
  /\ inflight \in {Some(MkLine(<< Entry("time", "string", TimeStr(t)) >>, t, FileName(1), 0)) :
                     t \in RangeTimes}
  /\ pc = "range"

RangeSpec == RangeInit /\ [][RangeStage]_vars

\* ----------------------------------- claims on the filters and the range
\* Whether one clause holds of a record: the field is there, holds a string,
\* and the regex is found in it exactly when the clause is not negated.
ClauseHolds(clause, record) ==
  \E i \in 1..Len(record) :
    /\ record[i].key = clause.key
    /\ record[i].type = "string"
    /\ IsMatch(clause.pattern, record[i].str) = ~clause.inverse

ClauseOf(text) ==
  LET Fields == {i \in 2..Len(text) : \A j \in 2..i : CharAt(text, j) \in WordChars}
      plain == {i \in Fields : CharAt(text, i + 1) = "="}
      negated == {i \in Fields : CharAt(text, i + 1) = "!" /\ CharAt(text, i + 2) = "="}
  IN IF CharAt(text, 1) = "%" /\ plain # {}
     THEN LET i == CHOOSE i \in plain : TRUE
          IN Filter(SubSeq(text, 2, i), FALSE, SubSeq(text, i + 2, Len(text)))
     ELSE IF CharAt(text, 1) = "%" /\ negated # {}
     THEN LET i == CHOOSE i \in negated : TRUE
          IN Filter(SubSeq(text, 2, i), TRUE, SubSeq(text, i + 3, Len(text)))
     ELSE Filter("message", FALSE, text)

\* The value of the field `level` of the record in flight, None if absent.
LevelInFlight == MapGet(inflight[1].value, "level")

\* C16: a filter text that parses yields the clause of the grammar:
\* %<field>=<body> gives (field, not negated, body), %<field>!=<body> gives
\* (field, negated, body), a text without such a start gives (message, not
\* negated, the whole text); and the filter %level!=DEBUG rejects a record
\* whose level is DEBUG, accepts one whose level is INFO and rejects a
\* record without a level.
C16_FilterParsing ==
  [][/\ (pc = "args" /\ pc' # "panic" /\ argv' # argv) =>
          /\ filter' # None
          /\ filter'[1][Len(filter'[1])] = ClauseOf(Head(argv).value)
          /\ SubSeq(filter'[1], 1, Len(filter'[1]) - 1) = (IF filter = None THEN << >> ELSE filter[1])
     /\ (pc = "filter" /\ filter = Some(<< ClauseOf("%level!=DEBUG") >>)) =>
          /\ LevelInFlight = None => pc' # "print"
          /\ LevelInFlight = Some(Entry("level", "string", "DEBUG")) => pc' # "print"
          /\ LevelInFlight = Some(Entry("level", "string", "INFO")) => pc' = "print"]_vars

\* The filter %level!=DEBUG was parsed into a negated clause on `level` and
\* has rejected a record without a level.
C16_Witness ==
  /\ argv = << >>
  /\ filter = Some(<< Filter("level", TRUE, "DEBUG") >>)
  /\ Len(rejected) = 1
  /\ MapGet(rejected[1].value, "level") = None
  /\ pc = "pull"

\* C17: a single filter with an empty body, such as %stack=, accepts the
\* record exactly when the record has the named field, whatever the field
\* holds.
C17_EmptyBodyTestsExistence ==
  [][(pc = "filter" /\ filter # None /\ Len(filter[1]) = 1
        /\ filter[1][1].pattern = "" /\ ~filter[1][1].inverse) =>
       ((pc' = "print") <=> MapGet(inflight[1].value, filter[1][1].key) # None)]_vars

\* C18: the range stage lets a record through exactly when its time is at or
\* after the minimum, if there is one, and before the maximum, if there is
\* one: a record at the minimum passes, a record at the maximum does not,
\* and without bounds every record passes.
C18_RangeHalfOpen ==
  [][pc = "range" =>
       LET time == inflight[1].time
       IN /\ (pc' = "filter") <=>
               /\ range.min = None \/ time >= range.min[1]
               /\ range.max = None \/ time < range.max[1]
          /\ pc' \in {"filter", "pull"}
          /\ pc' = "pull" => rejected' = Append(rejected, inflight[1]) /\ inflight' = None
          /\ pc' = "filter" => UNCHANGED << inflight, rejected >>]_vars

\* A record at the minimum of a range with a later maximum has passed.
C18_Witness ==
  /\ pc = "filter"
  /\ range.min = Some(1)
  /\ range.max = Some(2)
  /\ inflight # None
  /\ inflight[1].time = 1
  /\ rejected = << >>

\* -------------------------------------------- the pattern language at work
DEFAULT_PRETTY == "[%time] %message %prefix/\\n/%stack\\v/"

\* Arguments::load_default_pattern: `unwrap_or` takes its argument by value,
\* so the built-in pattern is parsed whether SAW_PATTERN is set or not.
LoadDefaultPattern(env) ==
  LET given == IF env = None THEN None ELSE PrettyParse(env[1])
      builtin == PrettyParse(DEFAULT_PRETTY)
  IN IF env # None /\ given = None THEN None
     ELSE IF builtin = None THEN None
     ELSE IF env # None THEN given ELSE builtin

PrettyPatterns ==
  {"[%time] %message", "%prefix( - /%stack)", "%message%prefix( - /%stack)",
   "%missing", "%prefix(%level: /%message)", "%prefix(>/%pad)", "%prefix(/%stack)",
   "%level(x)", "a/b", "%replace(%message/l/L)", "%replaceAll(%message/l/L)",
   "tab\\tend", "%stack\\v", "%prefix(a/b/c)", "100%", "%prefix(x/%prefix(y/%stack))",
   "%ok %level %none.", "%prefix(>/%stack\\v)"}

\* SAW_PATTERN: unset, or set to a pattern.
EnvPatterns == {None, Some("%message")}

\* A record of the merged stream with the time 2020-01-01T00:00:00, by the
\* entries that follow its time.
PrettyRecord(entries) ==
  MkLine(<< Entry("time", "string", TimeStr(0)) >> \o entries, 0, FileName(1), 0)

PrettyRecords ==
  {PrettyRecord(<< Entry("message", "string", "hello") >>),
   PrettyRecord(<< Entry("stack", "string", "boom") >>),
   PrettyRecord(<< Entry("message", "string", "hello"), Entry("stack", "string", "boom") >>),
   PrettyRecord(<< Entry("message", "string", "hello"), Entry("stack", "string", " \t") >>),
   PrettyRecord(<< Entry("pad", "string", " x y\n") >>),
   PrettyRecord(<< Entry("level", "number", "7"), Entry("message", "string", "") >>),
   PrettyRecord(<< Entry("ok", "bool", "true"), Entry("none", "null", "null") >>)}

\* Arguments::parse before its --pretty option (followed by a pattern or by
\* nothing), with one record of the merged stream on its way to the closure
\* of do_pretty.
PrettyInit ==
  /\ NoInputs
  /\ NoChunks
  /\ range = [min |-> None, max |-> None]
  /\ filter = None
  /\ pretty = None
  /\ args = NoArgs
  /\ sink = << >>
  /\ rejected = << >>
  /\ inflight \in {Some(r) : r \in PrettyRecords}
  /\ argv \in {<< Arg("--pretty", p) >> : p \in {None} \cup {Some(t) : t \in PrettyPatterns}}
  /\ pc = "args"

\* Arguments::parse, the arm of "-p" | "--pretty".
ParsePrettyArg ==
  /\ pc = "args"
  /\ argv # << >>
  /\ Head(argv).flag = "--pretty"
  /\ \E env \in EnvPatterns :
       LET parsed == IF pretty # None THEN None
                     ELSE IF Head(argv).value = None THEN LoadDefaultPattern(env)
                     ELSE PrettyParse(Head(argv).value[1])
       IN IF parsed = None
          THEN /\ pc' = "panic"
               /\ fault' = "pretty"
               /\ UNCHANGED << pretty, argv >>
          ELSE /\ pretty' = Some(parsed[1])
               /\ argv' = Tail(argv)
               /\ pc' = IF Tail(argv) = << >> THEN "print" ELSE "args"
               /\ UNCHANGED fault
  /\ UNCHANGED << files, logs, out, last, calls, ret, nread, range, filter, args,
                  pipeVars, chunkVars >>

PrettyNext == ParsePrettyArg \/ DoPretty \/ EndLine

PrettySpec == PrettyInit /\ [][PrettyNext]_vars

\* ------------------------------------------ claims on the pattern language
\* The text of a scalar field: a string as it is, the text of a number or of
\* a boolean, nothing for null.
ScalarText(entry) == IF entry.type = "null" THEN "" ELSE entry.str

\* Whether a program is made of Literals and Variables only.
IsFlat(fragments) ==
  \A i \in 1..Len(fragments) : fragments[i].kind \in {"Literal", "Variable"}

\* What the i-th fragment of a flat program gives for a record: the text of
\* a Literal, the field of a Variable if the record has it, else nothing.
Piece(fragments, i, record) ==
  IF fragments[i].kind = "Literal" THEN fragments[i].text
  ELSE IF \E k \in 1..Len(record) : record[k].key = fragments[i].text
  THEN ScalarText(record[CHOOSE k \in 1..Len(record) : record[k].key = fragments[i].text])
  ELSE ""

\* The pieces of a flat program up to the n-th, one after the other.
RECURSIVE Pieces(_, _, _)
Pieces(fragments, n, record) ==
  IF n = 0 THEN "" ELSE Pieces(fragments, n - 1, record) \o Piece(fragments, n, record)

\* The text written for the record that was in flight.
Written == sink'[Len(sink')].text

\* C19: printing a program of Literals and Variables never fails and writes,
\* left to right, the text of each Literal and, for each Variable, the
\* scalar text of the field if the record has it and nothing if it has not;
\* the pattern `[%time] %message` is the program [, time, "] ", message and
\* prints the record {"time":"2020-01-01T00:00:00","message":"hello"} as
\* `[2020-01-01T00:00:00] hello`.
C19_FlatProgramPrinted ==
  [][/\ (pc = "args" /\ Head(argv) = Arg("--pretty", Some("[%time] %message"))) =>
          pretty' = Some(<< LiteralFrag("["), VariableFrag("time"), LiteralFrag("] "),
                            VariableFrag("message") >>)
     /\ (pc = "print" /\ pretty # None /\ IsFlat(pretty[1])) =>
          /\ pc' = "end_line"
          /\ Len(sink') = Len(sink) + 1
          /\ Written = Pieces(pretty[1], Len(pretty[1]), inflight[1].value)
     /\ (/\ pc = "print"
         /\ pretty = Some(<< LiteralFrag("["), VariableFrag("time"), LiteralFrag("] "),
                             VariableFrag("message") >>)
         /\ inflight[1].value = << Entry("time", "string", "2020-01-01T00:00:00"),
                                   Entry("message", "string", "hello") >>) =>
          Written = "[2020-01-01T00:00:00] hello"]_vars

\* The record of the example was printed under the pattern of the example.
C19_Witness ==
  /\ pretty = Some(<< LiteralFrag("["), VariableFrag("time"), LiteralFrag("] "),
                      VariableFrag("message") >>)
  /\ Len(sink) = 1
  /\ sink[1].line.value = << Entry("time", "string", "2020-01-01T00:00:00"),
                             Entry("message", "string", "hello") >>
  /\ sink[1].text = "[2020-01-01T00:00:00] hello"

\* The text without the white space around it: from its first to its last
\* character that is no white space.
Trimmed(s) ==
  LET I == {i \in 1..Len(s) : ~(SubSeq(s, i, i) \in WhiteSpace)}
  IN IF I = {} THEN ""
     ELSE SubSeq(s, CHOOSE i \in I : \A j \in I : i <= j, CHOOSE i \in I : \A j \in I : j <= i)

\* C20: a prefix fragment over two programs of Literals and Variables prints
\* the body program; if the result without the white space around it is not
\* empty, it writes the prefix program printed and then that result, else
\* it writes nothing; `%prefix( - /%stack)` is the prefix " - " over the
\* body %stack, writes nothing for a record without `stack` and ` - boom`
\* for a record whose stack is "boom".
C20_PrefixFragment ==
  [][/\ (pc = "args" /\ Head(argv) = Arg("--pretty", Some("%prefix( - /%stack)"))) =>
          pretty' = Some(<< PrefixFrag(<< LiteralFrag(" - ") >>, << VariableFrag("stack") >>) >>)
     /\ (/\ pc = "print"
         /\ pretty # None
         /\ Len(pretty[1]) = 1
         /\ pretty[1][1].kind = "Prefix"
         /\ IsFlat(pretty[1][1].prefix)
         /\ IsFlat(pretty[1][1].base)) =>
          LET frag == pretty[1][1]
              record == inflight[1].value
              body == Trimmed(Pieces(frag.base, Len(frag.base), record))
          IN /\ pc' = "end_line"
             /\ Written = IF body # ""
                          THEN Pieces(frag.prefix, Len(frag.prefix), record) \o body
                          ELSE ""
     /\ (/\ pc = "print"
         /\ pretty = Some(<< PrefixFrag(<< LiteralFrag(" - ") >>,
                                        << VariableFrag("stack") >>) >>)) =>
          /\ MapGet(inflight[1].value, "stack") = None => Written = ""
          /\ MapGet(inflight[1].value, "stack") = Some(Entry("stack", "string", "boom")) =>
               Written = " - boom"]_vars

\* The prefix " - " over %stack has printed ` - boom` for a record whose
\* stack is "boom".
C20_Witness ==
  /\ pretty = Some(<< PrefixFrag(<< LiteralFrag(" - ") >>, << VariableFrag("stack") >>) >>)
  /\ Len(sink) = 1
  /\ MapGet(sink[1].line.value, "stack") = Some(Entry("stack", "string", "boom"))
  /\ sink[1].text = " - boom"

\* ------------------------------------------------ containers in a pattern
MaxItems == 3

\* The values an array or an object of a record holds.
ItemValues ==
  {Entry("k", "string", "a"), Entry("k", "number", "1"), Entry("k", "null", "null"),
   Container("k", "array", << Entry("k", "string", "x"), Entry("k", "string", "y") >>)}

\* The items with the keys k1, k2, ... in this order.
Keyed(items) == [i \in 1..Len(items) |-> [items[i] EXCEPT !.key = "k" \o ToString(i)]]

ContainerRecords ==
  {PrettyRecord(<< Container("tags", ty, Keyed(items)) >>) :
     ty \in {"array", "object"}, items \in SeqsUpTo(ItemValues, MaxItems)}

ContainerPatterns == {"%tags", "[%tags]"}

\* Arguments::parse before its --pretty option, with one record that holds
\* an array or an object on its way to the closure of do_pretty.
ContainerInit ==
  /\ NoInputs
  /\ NoChunks
  /\ range = [min |-> None, max |-> None]
  /\ filter = None
  /\ pretty = None
  /\ args = NoArgs
  /\ sink = << >>
  /\ rejected = << >>
  /\ inflight \in {Some(r) : r \in ContainerRecords}
  /\ argv \in {<< Arg("--pretty", Some(t)) >> : t \in ContainerPatterns}
  /\ pc = "args"

ContainerSpec == ContainerInit /\ [][PrettyNext]_vars

\* The text of a value with all the items of an array or an object in it.
RECURSIVE FullText(_)
RECURSIVE FullJoin(_, _, _)
FullText(value) ==
  IF value.type \in {"array", "object"} THEN FullJoin(value.items, value.type, 1)
  ELSE ScalarText(value)

\* The items from the i-th on, each after ", " but the first.
FullJoin(items, ty, i) ==
  IF i > Len(items) THEN ""
  ELSE (IF i > 1 THEN ", " ELSE "")
         \o (IF ty = "object" THEN items[i].key \o ": " ELSE "")
         \o FullText(items[i]) \o FullJoin(items, ty, i + 1)

\* C21: a Variable on an array writes the texts of all its elements, in
\* order, joined by ", "; a Variable on an object writes all its `key: value`
\* pairs, in the order of the object, joined by ", ".
C21_ContainersJoined ==
  [][(pc = "print" /\ pretty = Some(<< VariableFrag("tags") >>)) =>
       Written = FullText(MapGet(inflight[1].value, "tags")[1])]_vars

\* C22: the escape `\v` is accepted in a pattern and gives no character:
\* `%stack\v` is the program of %stack, and `%prefix(>/%stack\v)` is the
\* prefix ">" over %stack.
C22_EscapeVAccepted ==
  [][/\ (pc = "args" /\ Head(argv) = Arg("--pretty", Some("%stack\\v"))) =>
          /\ pc' # "panic"
          /\ pretty' = Some(<< VariableFrag("stack") >>)
     /\ (pc = "args" /\ Head(argv) = Arg("--pretty", Some("%prefix(>/%stack\\v)"))) =>
          /\ pc' # "panic"
          /\ pretty' = Some(<< PrefixFrag(<< LiteralFrag(">") >>,
                                          << VariableFrag("stack") >>) >>)]_vars

\* The program the built-in pattern stands for: "[", the time, "] ", the
\* message, " ", then the stack behind a line break when there is a stack.
DefaultProgram ==
  << LiteralFrag("["), VariableFrag("time"), LiteralFrag("] "),
     VariableFrag("message"), LiteralFrag(" "),
     PrefixFrag(<< LiteralFrag("\n") >>, << VariableFrag("stack") >>) >>

\* C23: --pretty without a pattern takes the built-in pattern (or the one of
\* SAW_PATTERN), which parses without error into the program that prints
\* `[<time>] <message> ` and then a line break and the stack if the record
\* has a stack, nothing if it has none.
C23_DefaultPatternWorks ==
  [][(pc = "args" /\ Head(argv) = Arg("--pretty", None)) =>
       /\ pc' # "panic"
       /\ pretty' \in {Some(DefaultProgram), Some(<< VariableFrag("message") >>)}]_vars

\* ------------------------------------------------- escapes in a pattern
\* What stands before and behind the escape in the patterns tried: nothing,
\* a literal character, or a variable.
EscapeBefore == {"", "a", "%x"}
EscapeAfter == {"", "b", "%y"}

\* The characters tried behind the backslash: the nine of ESCAPE_MAP and
\* some it does not hold.
EscapeFollows == {"t", "s", "n", "r", "%", "\\", "/", "(", ")", "v", "q", "x", " "}

\* The patterns with one escape, and those that end in a backslash.
EscapePatterns ==
  {pre \o "\\" \o c \o post : pre \in EscapeBefore, c \in EscapeFollows, post \in EscapeAfter}
    \cup {pre \o "\\" : pre \in EscapeBefore}

\* Arguments::parse before a --pretty option whose pattern holds an escape.
EscapeInit ==
  /\ NoInputs
  /\ NoChunks
  /\ range = [min |-> None, max |-> None]
  /\ filter = None
  /\ pretty = None
  /\ args = NoArgs
  /\ sink = << >>
  /\ rejected = << >>
  /\ inflight \in {Some(PrettyRecord(<< Entry("x", "string", "1") >>)),
                   Some(PrettyRecord(<< Entry("y", "number", "2") >>))}
  /\ argv \in {<< Arg("--pretty", Some(t)) >> : t \in EscapePatterns}
  /\ pc = "args"

EscapeSpec == EscapeInit /\ [][PrettyNext]_vars

\* The character each escape is said to stand for.
EscapeChar(c) ==
  CASE c = "t" -> "\t"
    [] c = "s" -> " "
    [] c = "n" -> "\n"
    [] c = "r" -> "\r"
    [] c \in {"%", "\\", "/", "(", ")"} -> c

\* The program of a pattern with one escape: a single Literal that holds the
\* escaped character between its literal neighbours, the variables around it.
EscapeProgram(pre, c, post) ==
  (IF pre = "%x" THEN << VariableFrag("x") >> ELSE << >>)
    \o << LiteralFrag((IF pre = "a" THEN "a" ELSE "") \o EscapeChar(c)
                        \o (IF post = "b" THEN "b" ELSE "")) >>
    \o (IF post = "%y" THEN << VariableFrag("y") >> ELSE << >>)

C24_WitnessUnknown ==
  pc = "panic" /\ fault = "pretty" /\ argv = << Arg("--pretty", Some("a\\qb")) >>

\* ------------------------------------------------ calls in a pattern
\* The names tried before a call or alone: the three functions and two
\* names that are none.
CallNames == {"prefix", "replace", "replaceAll", "upper", "x"}

MaxCallArgs == 4

\* The n-th argument of the calls tried.
CallArg(n) == IF n = 1 THEN "%m" ELSE IF n = 2 THEN "l" ELSE IF n = 3 THEN "L" ELSE "z"

\* The first n arguments with a slash between them.
RECURSIVE CallArgText(_)
CallArgText(n) ==
  IF n = 1 THEN CallArg(1) ELSE CallArgText(n - 1) \o "/" \o CallArg(n)

\* The call of name with its first n arguments, closed or left open.
CallText(name, n, closed) ==
  "%" \o name \o "(" \o CallArgText(n) \o (IF closed THEN ")" ELSE "")

\* What follows a name that stands alone: nothing, a literal, a slash-free
\* text that ends the name.
BareTails == {"", " x", "."}

CallPatterns ==
  {CallText(name, n, closed) :
     name \in CallNames, n \in 1..MaxCallArgs, closed \in BOOLEAN}
    \cup {"%" \o name \o tail : name \in CallNames, tail \in BareTails}

\* Arguments::parse before a --pretty option whose pattern is a call or a
\* name alone.
CallInit ==
  /\ NoInputs
  /\ NoChunks
  /\ range = [min |-> None, max |-> None]
  /\ filter = None
  /\ pretty = None
  /\ args = NoArgs
  /\ sink = << >>
  /\ rejected = << >>
  /\ inflight \in {Some(PrettyRecord(<< Entry("m", "string", "hello") >>)),
                   Some(PrettyRecord(<< Entry("prefix", "string", "p") >>))}
  /\ argv \in {<< Arg("--pretty", Some(t)) >> : t \in CallPatterns}
  /\ pc = "args"

CallSpec == CallInit /\ [][PrettyNext]_vars

\* The number of arguments the function name takes, 0 if it is no function.
CallArity(name) ==
  CASE name = "prefix" -> 2
    [] name \in {"replace", "replaceAll"} -> 3
    [] OTHER -> 0

\* C25: the parse fails, and leaves no program, for a call of a name that is
\* not prefix, replace or replaceAll, for a call of prefix with other than
\* two arguments, of replace or replaceAll with other than three, and for a
\* call that is not closed; a name with no call-open behind it is a field
\* reference, whatever the name.
C25_CallParsing ==
  [][pc = "args" =>
       /\ \A name \in CallNames, n \in 1..MaxCallArgs, closed \in BOOLEAN :
            (/\ Head(argv).value = Some(CallText(name, n, closed))
             /\ (n # CallArity(name) \/ ~closed))
              => pc' = "panic" /\ pretty' = None
       /\ \A name \in CallNames, tail \in BareTails :
            Head(argv).value = Some("%" \o name \o tail) =>
              /\ pc' = "print"
              /\ pretty' = Some(<< VariableFrag(name) >>
                                  \o (IF tail = "" THEN << >> ELSE << LiteralFrag(tail) >>))]_vars

\* The call %prefix(%m/l/L), one argument too many, made the parse fail.
C25_Witness ==
  pc = "panic" /\ fault = "pretty" /\ argv = << Arg("--pretty", Some("%prefix(%m/l/L)")) >>

\* The name prefix alone was parsed as a field reference and printed.
C25_WitnessBare ==
  pretty = Some(<< VariableFrag("prefix") >>) /\ sink # << >> /\ sink[1].text = "p"

\* ------------------------------------------------ replace and replaceAll
\* The patterns tried: both functions over a body of one variable or of a
\* variable between literals, with a regex of one or two literal characters.
ReplacePatterns ==
  {"%replace(%message/l/L)", "%replaceAll(%message/l/L)",
   "%replace(%message/aa/b)", "%replaceAll(%message/aa/b)",
   "%replace(%message/z/Q)", "%replaceAll(%message/z/Q)",
   "%replace(a%message.a/a/aa)", "%replaceAll(a%message.a/a/aa)"}

ReplaceRecords ==
  {PrettyRecord(<< Entry("message", "string", m) >>) :
     m \in {"hello", "aaa", "aaaa", "", "xyz", "l", "llama", "baab"}}
    \cup {PrettyRecord(<< Entry("level", "number", "7") >>)}

\* Arguments::parse before a --pretty option whose pattern is a replace or a
\* replaceAll, with one record on its way to the closure of do_pretty.
ReplaceInit ==
  /\ NoInputs
  /\ NoChunks
  /\ range = [min |-> None, max |-> None]
  /\ filter = None
  /\ pretty = None
  /\ args = NoArgs
  /\ sink = << >>
  /\ rejected = << >>
  /\ inflight \in {Some(r) : r \in ReplaceRecords}
  /\ argv \in {<< Arg("--pretty", Some(t)) >> : t \in ReplacePatterns}
  /\ pc = "args"

ReplaceSpec == ReplaceInit /\ [][PrettyNext]_vars

\* The least position of s where r starts, 0 if r is not in s.
FirstMatch(s, r) ==
  LET hits == {i \in 1..(Len(s) - Len(r) + 1) : SubSeq(s, i, i + Len(r) - 1) = r}
  IN IF hits = {} THEN 0 ELSE CHOOSE i \in hits : \A j \in hits : i <= j

\* s with its leftmost match of r replaced by p.
ReplacedFirst(s, r, p) ==
  LET i == FirstMatch(s, r)
  IN IF i = 0 THEN s
     ELSE SubSeq(s, 1, i - 1) \o p \o SubSeq(s, i + Len(r), Len(s))

\* s with every match of r replaced by p, the matches taken from the left
\* and none of them over another.
RECURSIVE ReplacedAll(_, _, _)
ReplacedAll(s, r, p) ==
  LET i == FirstMatch(s, r)
  IN IF i = 0 THEN s
     ELSE SubSeq(s, 1, i - 1) \o p \o ReplacedAll(SubSeq(s, i + Len(r), Len(s)), r, p)

\* C26: a replace fragment prints its body program and replaces the leftmost
\* match of the regex only, a replaceAll fragment replaces every match, none
\* over another; when the regex does not match, both write the printed body
\* as it is.
C26_ReplaceFragment ==
  [][(/\ pc = "print"
      /\ pretty # None
      /\ Len(pretty[1]) = 1
      /\ pretty[1][1].kind = "Replace"
      /\ IsFlat(pretty[1][1].base)) =>
       LET frag == pretty[1][1]
           body == Pieces(frag.base, Len(frag.base), inflight[1].value)
       IN /\ pc' = "end_line"
          /\ FirstMatch(body, frag.regex) = 0 => Written = body
          /\ ~frag.global => Written = ReplacedFirst(body, frag.regex, frag.replacement)
          /\ frag.global => Written = ReplacedAll(body, frag.regex, frag.replacement)]_vars

\* "hello" was printed by %replace(%message/l/L) as "heLlo".
C26_Witness ==
  /\ pretty = Some(<< ReplaceFrag(<< VariableFrag("message") >>, "l", "L", FALSE) >>)
  /\ sink # << >>
  /\ MapGet(sink[1].line.value, "message") = Some(Entry("message", "string", "hello"))
  /\ sink[1].text = "heLlo"

\* "aaaa" was printed by %replaceAll(%message/aa/b) as "bb".
C26_WitnessAll ==
  /\ pretty = Some(<< ReplaceFrag(<< VariableFrag("message") >>, "aa", "b", TRUE) >>)
  /\ sink # << >>
  /\ sink[1].text = "bb"

\* ------------------------------------------------------- translations
\* A Translation: the field it writes and the program of its pattern.
Translation(output, pattern) == [output |-> output, pattern |-> pattern]

\* Translation::parse, None when the pattern does not parse.
TranslationParse(output, raw) ==
  LET parsed == PrettyParse(raw)
  IN IF parsed = None THEN None ELSE Some(Translation(output, parsed[1]))

\* Map::remove
RECURSIVE MapRemove(_, _)
MapRemove(map, k) ==
  IF map = << >> THEN << >>
  ELSE IF Head(map).key = k THEN MapRemove(Tail(map), k)
  ELSE << Head(map) >> \o MapRemove(Tail(map), k)

\* Map::insert: the value of a key the map holds is replaced where it is, a
\* new key is added (its place among the keys is read by no definition
\* here, which get the fields by their key).
MapInsert(map, k, v) ==
  IF MapGet(map, k) = None THEN Append(map, v)
  ELSE [i \in 1..Len(map) |-> IF map[i].key = k THEN v ELSE map[i]]

\* Translation::translate that leaves the record as it is when the result is
\* blank.
TranslateKeepsBlank(t, values) ==
  LET result == PrintToString(t.pattern, values)
  IN IF Trim(result) = "" THEN values
     ELSE MapInsert(values, t.output, Entry(t.output, "string", result))

\* Translation::translate
Translate(t, values) ==
  LET result == PrintToString(t.pattern, values)
  IN IF Trim(result) = "" THEN MapRemove(values, t.output)
     ELSE MapInsert(values, t.output, Entry(t.output, "string", result))

MaxTranslations == 2

\* The --translate options tried: the target is a field the record has or
\* one it has not; the pattern gives a text, a blank text or nothing.
TranslateOutputs == {"message", "out"}
TranslatePatterns ==
  {"%message!", " %level", "%missing", "\\s\\t", "%replace(%message/l/L)", "<%out>"}

TranslationsTried ==
  {TranslationParse(o, p)[1] : o \in TranslateOutputs, p \in TranslatePatterns}

TranslateRecords ==
  {PrettyRecord(<< Entry("message", "string", "hello"), Entry("level", "number", "7") >>),
   PrettyRecord(<< Entry("message", "string", " ") >>),
   PrettyRecord(<< Entry("stack", "string", "boom"), Entry("out", "bool", "true") >>)}

\* The translations of the arguments and a record they are to be applied
\* to, none applied yet.
TranslateInit ==
  /\ NoInputs
  /\ NoChunks
  /\ range = [min |-> None, max |-> None]
  /\ filter = None
  /\ pretty = None
  /\ argv = << >>
  /\ \E n \in 1..MaxTranslations :
       \E ts \in [1..n -> TranslationsTried] :
         args = [NoArgs EXCEPT !.translations = ts]
  /\ sink = << >>
  /\ rejected = << >>
  /\ inflight \in {Some(r) : r \in TranslateRecords}
  /\ pc = "translate"

\* Translation::translate called on the record for the next translation of
\* the arguments; calls counts the calls made.
ApplyTranslate ==
  /\ pc = "translate"
  /\ calls < Len(args.translations)
  /\ inflight' = << [inflight[1] EXCEPT
                       !.value = Translate(args.translations[calls + 1], @)] >>
  /\ calls' = calls + 1
  /\ UNCHANGED << files, logs, pc, out, last, fault, ret, nread, cfgVars, chunkVars,
                  sink, rejected >>

TranslateSpec == TranslateInit /\ [][ApplyTranslate]_vars

\* Whether a text is empty or holds white space only.
Blank(s) == \A i \in 1..Len(s) : SubSeq(s, i, i) \in WhiteSpace

\* The keys of a map.
Keys(map) == {map[i].key : i \in 1..Len(map)}

\* C27: a translation step prints its program against the record; if the
\* result is empty or white space only the target field is removed, else the
\* target field is inserted or overwritten with the result as a string; every
\* other field is left as it was.
C27_TranslationStep ==
  [][(pc = "translate" /\ calls' = calls + 1) =>
       LET t == args.translations[calls + 1]
           before == inflight[1].value
           after == inflight'[1].value
           result == PrintToString(t.pattern, before)
       IN /\ Blank(result) => MapGet(after, t.output) = None
          /\ ~Blank(result) =>
               MapGet(after, t.output) = Some(Entry(t.output, "string", result))
          /\ Cardinality(Keys(after)) = Len(after)
          /\ \A k \in (Keys(before) \cup Keys(after)) \ {t.output} :
               MapGet(after, k) = MapGet(before, k)]_vars

\* The translation of `message` by the pattern %missing took the message out
\* of a record and left its level.
C27_Witness ==
  /\ pc = "translate"
  /\ calls = 1
  /\ args.translations[1] = Translation("message", << VariableFrag("missing") >>)
  /\ MapGet(inflight[1].value, "message") = None
  /\ MapGet(inflight[1].value, "level") = Some(Entry("level", "number", "7"))

\* The translation of `out` by the pattern %message! added the field out.
C27_WitnessInsert ==
  /\ pc = "translate"
  /\ calls = 1
  /\ MapGet(inflight[1].value, "out") = Some(Entry("out", "string", "hello!"))

\* -------------------------------------- the pipeline with translations
\* A --translate option with the two values that follow it.
TranslateArg(output, raw) == [flag |-> "--translate", value |-> output, pattern |-> raw]

\* The --pretty patterns tried behind the --translate options: they read the
\* fields the translations write.
TranslatedPatterns == {"%message", "%message|%out"}

\* Arguments::parse before one or two --translate options and a --pretty
\* option, with one record that passed do_range and do_filter on its way to
\* the closure of do_pretty.
TranslatedInit ==
  /\ NoInputs
  /\ NoChunks
  /\ range = [min |-> None, max |-> None]
  /\ filter = None
  /\ pretty = None
  /\ args = NoArgs
  /\ sink = << >>
  /\ rejected = << >>
  /\ inflight \in {Some(r) : r \in TranslateRecords}
  /\ \E n \in 1..MaxTranslations :
       \E ts \in [1..n -> {TranslateArg(o, p) : o \in TranslateOutputs,
                                                p \in TranslatePatterns \cup {"%prefix(x)"}}] :
         \E p \in TranslatedPatterns :
           argv = ts \o << Arg("--pretty", Some(p)) >>
  /\ pc = "args"

\* Arguments::parse, the arm of "-t" | "--translate".
ParseTranslateArg ==
  /\ pc = "args"
  /\ argv # << >>
  /\ Head(argv).flag = "--translate"
  /\ LET parsed == TranslationParse(Head(argv).value, Head(argv).pattern)
     IN IF parsed = None
        THEN /\ pc' = "panic"
             /\ fault' = "translate"
             /\ UNCHANGED << args, argv >>
        ELSE /\ args' = [args EXCEPT !.translations = Append(@, parsed[1])]
             /\ argv' = Tail(argv)
             /\ pc' = IF Tail(argv) = << >> THEN "print" ELSE "args"
             /\ UNCHANGED fault
  /\ UNCHANGED << files, logs, out, last, calls, ret, nread, range, filter, pretty,
                  pipeVars, chunkVars >>

TranslatedNext == ParseTranslateArg \/ ParsePrettyArg \/ DoPretty \/ EndLine

TranslatedSpec == TranslatedInit /\ [][TranslatedNext]_vars

\* The record after the translations ts, applied in their order, each to the
\* record the one before it left.
RECURSIVE TranslateAll(_, _)
TranslateAll(ts, values) ==
  IF ts = << >> THEN values ELSE TranslateAll(Tail(ts), Translate(Head(ts), values))

\* C28: the pipeline applies the translations of the arguments, in their
\* order and each on what the one before it left, to every record that
\* passed the time range and the filter, before the record is printed: what
\* is written is the translated record.
C28_TranslationsApplied ==
  [][pc = "print" =>
       Written = Render(pretty, TranslateAll(args.translations, inflight[1].value))]_vars

\* ------------------------------------------------------ Arguments::parse
\* str::starts_with("-") / starts_with('-')
StartsWithDash(s) == s # "" /\ SubSeq(s, 1, 1) = "-"

\* str::to_lowercase over ASCII.
RECURSIVE ToLowercase(_)
ToLowercase(s) ==
  IF s = "" THEN ""
  ELSE LET c == SubSeq(s, 1, 1)
           upper == {i \in 1..26 : SubSeq("ABCDEFGHIJKLMNOPQRSTUVWXYZ", i, i) = c}
       IN (IF upper = {} THEN c
           ELSE LET i == CHOOSE i \in upper : TRUE
                IN SubSeq("abcdefghijklmnopqrstuvwxyz", i, i))
            \o ToLowercase(SubSeq(s, 2, Len(s)))

\* The value of a decimal digit, -1 for any other character.
DigitValue(c) ==
  LET found == {i \in 1..10 : SubSeq("0123456789", i, i) = c}
  IN IF found = {} THEN -1 ELSE (CHOOSE i \in found : TRUE) - 1

\* The first position of s at or after i that holds no decimal digit.
RECURSIVE DigitsEnd(_, _)
DigitsEnd(s, i) ==
  IF i <= Len(s) /\ DigitValue(SubSeq(s, i, i)) >= 0 THEN DigitsEnd(s, i + 1) ELSE i

\* The first position of s at or after i that holds no letter of a..z.
RECURSIVE LowerEnd(_, _)
LowerEnd(s, i) ==
  IF i <= Len(s) /\ \E k \in 1..26 : SubSeq("abcdefghijklmnopqrstuvwxyz", k, k) = SubSeq(s, i, i)
  THEN LowerEnd(s, i + 1) ELSE i

\* str::parse::<usize> of a text of digits (the texts tried stay far below
\* the largest usize): None for the empty text.
RECURSIVE DigitsNumber(_, _)
DigitsNumber(s, acc) ==
  IF s = "" THEN acc
  ELSE DigitsNumber(SubSeq(s, 2, Len(s)), acc * 10 + DigitValue(SubSeq(s, 1, 1)))
ParseUsize(s) == IF s = "" THEN None ELSE Some(DigitsNumber(s, 0))

\* BYTE_SUFFIXES: the multiplier of a suffix, None for an unknown one.
ByteSuffix(suffix) ==
  CASE suffix = "b" -> Some(1)
    [] suffix = "kb" -> Some(1024)
    [] suffix = "mb" -> Some(1024 * 1024)
    [] suffix = "gb" -> Some(1024 * 1024 * 1024)
    [] OTHER -> None

\* ChunkInfo::parse, None when it panics.
ChunkInfoParse(raw) ==
  LET digits == DigitsEnd(raw, 1)
      letters == LowerEnd(raw, digits)
      number == SubSeq(raw, 1, digits - 1)
      suffix == SubSeq(raw, digits, letters - 1)
      raw_value == ParseUsize(number)
  IN IF letters <= Len(raw) THEN None
     ELSE IF raw_value = None THEN None
     ELSE IF suffix = "ln" THEN Some(ChunkInfo(raw_value[1], "Lines"))
     ELSE IF ByteSuffix(suffix) # None
     THEN Some(ChunkInfo(raw_value[1] * ByteSuffix(suffix)[1], "Bytes"))
     ELSE None

\* Arguments::read_path over a directory that holds the n files f1..fn: the
\* paths a glob pattern matches, in the order of their names; None when the
\* pattern is not a valid glob.
Glob(raw, n) ==
  IF raw = "***" THEN None
  ELSE IF raw = "f*" THEN Some([i \in 1..n |-> FileName(i)])
  ELSE IF \E i \in 1..n : raw = FileName(i) THEN Some(<< raw >>)
  ELSE Some(<< >>)

\* `init` and the locals has_zip, has_json and json as Arguments::parse
\* first sets them.
ParseStart ==
  [sources |-> << >>, pretty |-> None, filter |-> None, output |-> None,
   chunked |-> None, translations |-> << >>, range |-> [min |-> None, max |-> None],
   zip |-> FALSE, has_zip |-> FALSE, has_json |-> FALSE, json |-> FALSE]

\* How a part of Arguments::parse ends: it goes on with `init` and the
\* tokens not read yet, it panics, or it exits (--help, --version).
Going(init, rest) == [st |-> "ok", init |-> init, rest |-> rest]
Panicked == [st |-> "panic", init |-> ParseStart, rest |-> << >>]
Exited == [st |-> "exit", init |-> ParseStart, rest |-> << >>]

\* One end of a --range: "*" is no bound; None when the text is no date-time.
RangeEnd(raw) ==
  IF raw = "*" THEN Some(None)
  ELSE IF ParseTime(raw) = None THEN None ELSE Some(ParseTime(raw))

\* The `match next.as_ref()` of Arguments::parse for an option `next`, with
\* the tokens `rest` behind it.
ParseOption(next, rest, init, env) ==
  IF next \in {"-h", "--help", "-v", "--version"} THEN Exited
  ELSE IF next \in {"-p", "--pretty"}
  THEN IF init.pretty # None THEN Panicked
       ELSE IF rest # << >> /\ ~StartsWithDash(Head(rest))
       THEN LET parsed == PrettyParse(Head(rest))
            IN IF parsed = None THEN Panicked
               ELSE Going([init EXCEPT !.pretty = parsed], Tail(rest))
       ELSE LET loaded == LoadDefaultPattern(env)
            IN IF loaded = None THEN Panicked
               ELSE Going([init EXCEPT !.pretty = loaded], rest)
  ELSE IF next \in {"-f", "--filter"}
  THEN IF rest = << >> THEN Panicked
       ELSE LET parsed == ParseFilter(Head(rest))
            IN IF parsed = None THEN Panicked
               ELSE Going([init EXCEPT !.filter =
                             IF @ # None THEN Some(Append(@[1], parsed[1]))
                             ELSE Some(<< parsed[1] >>)],
                          Tail(rest))
  ELSE IF next \in {"-o", "--output"}
  THEN IF init.output # None \/ rest = << >> THEN Panicked
       ELSE Going([init EXCEPT !.output = Some(Head(rest))], Tail(rest))
  ELSE IF next \in {"-c", "--chunked"}
  THEN IF init.chunked # None \/ rest = << >> THEN Panicked
       ELSE LET parsed == ChunkInfoParse(Head(rest))
            IN IF parsed = None THEN Panicked
               ELSE Going([init EXCEPT !.chunked = parsed], Tail(rest))
  ELSE IF next \in {"-z", "--zip"}
  THEN IF init.has_zip \/ rest = << >> THEN Panicked
       ELSE IF ToLowercase(Head(rest)) \notin {"true", "false"} THEN Panicked
       ELSE Going([init EXCEPT !.has_zip = TRUE,
                               !.zip = (ToLowercase(Head(rest)) = "true")],
                  Tail(rest))
  ELSE IF next \in {"-j", "--json"}
  THEN IF init.has_json \/ rest = << >> THEN Panicked
       ELSE IF ToLowercase(Head(rest)) \notin {"true", "false"} THEN Panicked
       ELSE Going([init EXCEPT !.has_json = TRUE,
                               !.json = (ToLowercase(Head(rest)) = "true")],
                  Tail(rest))
  ELSE IF next \in {"-r", "--range"}
  THEN IF init.range # [min |-> None, max |-> None] \/ Len(rest) < 2 THEN Panicked
       ELSE LET min == RangeEnd(rest[1])
                max == RangeEnd(rest[2])
            IN IF min = None \/ max = None THEN Panicked
               ELSE Going([init EXCEPT !.range = [min |-> min[1], max |-> max[1]]],
                          Tail(Tail(rest)))
  ELSE IF next \in {"-t", "--translate"}
  THEN IF Len(rest) < 2 THEN Panicked
       ELSE LET parsed == TranslationParse(rest[1], rest[2])
            IN IF parsed = None THEN Panicked
               ELSE Going([init EXCEPT !.translations = Append(@, parsed[1])],
                          Tail(Tail(rest)))
  ELSE Panicked

\* The defaults and sanity checks at the end of Arguments::parse that keeps
\* --chunked without --output and --pretty with --json true.
ParseFinishUnchecked(init, env) ==
  LET defaulted == IF init.has_json THEN ~init.json /\ init.pretty = None
                   ELSE init.output = None /\ init.pretty = None
      loaded == LoadDefaultPattern(env)
      resolved == IF defaulted THEN loaded ELSE init.pretty
  IN IF defaulted /\ loaded = None THEN Panicked
     ELSE Going([init EXCEPT !.pretty = resolved,
                             !.zip = IF init.has_zip THEN @ ELSE resolved = None],
                << >>)

\* The defaults and sanity checks at the end of Arguments::parse.
ParseFinish(init, env) ==
  LET defaulted == IF init.has_json THEN ~init.json /\ init.pretty = None
                   ELSE init.output = None /\ init.pretty = None
      loaded == LoadDefaultPattern(env)
      resolved == IF defaulted THEN loaded ELSE init.pretty
  IN IF init.chunked # None /\ init.output = None THEN Panicked
     ELSE IF init.has_json /\ init.json /\ init.pretty # None THEN Panicked
     ELSE IF defaulted /\ loaded = None THEN Panicked
     ELSE Going([init EXCEPT !.pretty = resolved,
                             !.zip = IF init.has_zip THEN @ ELSE resolved = None],
                << >>)

\* The loop of Arguments::parse over the tokens src, then its last checks:
\* every token that is taken by the loop itself, an option too, is handed
\* to read_path after its arm.  (The arm is bound through a set of one
\* element, so that it is worked out once for each token.)
RECURSIVE ParseLoop(_, _, _, _)
ParseLoop(src, init, env, n) ==
  IF src = << >> THEN ParseFinish(init, env)
  ELSE LET next == Head(src)
           found == Glob(next, n)
       IN CHOOSE result \in
            {IF arm.st # "ok" THEN arm
             ELSE IF found = None THEN Panicked
             ELSE ParseLoop(arm.rest, [arm.init EXCEPT !.sources = @ \o found[1]], env, n) :
               arm \in {IF StartsWithDash(next) THEN ParseOption(next, Tail(src), init, env)
                        ELSE Going(init, Tail(src))}} : TRUE

\* Arguments::parse of the tokens behind the program name, in a directory
\* of n files.
ArgumentsParse(tokens, env, n) == ParseLoop(tokens, ParseStart, env, n)

\* ------------------------------------------- main from the command line
MaxOptions == 3

\* The options tried, each with the values behind it, and the sources: good
\* and bad patterns, filters and chunk sizes, a glob and a bad glob.
OptionGroups ==
  {<< "--pretty", "%message" >>, << "-p", "%oops(x)" >>,
   << "--filter", "%level=7" >>, << "--filter", "%level=(" >>,
   << "--output", "o/out" >>,
   << "--chunked", "2ln" >>, << "-c", "2xb" >>,
   << "--zip", "FALSE" >>,
   << "--json", "true" >>, << "--json", "false" >>,
   << "--translate", "out", "%message!" >>,
   << "--range", "*", "2020-01-01T00:00:02" >>,
   << "--help" >>, << "--nope" >>,
   << "f*" >>, << "***" >>}

\* The tokens of a sequence of options, in their order.
RECURSIVE Flatten(_)
Flatten(groups) == IF groups = << >> THEN << >> ELSE Head(groups) \o Flatten(Tail(groups))

\* main() before Arguments::parse: the tokens of the command line, the one
\* file f1 of the directory, nothing opened, nothing written.
ArgsInit ==
  /\ files = << << ValidLine(1), ValidLine(2) >> >>
  /\ logs = << >>
  /\ out = << >>
  /\ last = None
  /\ calls = 0
  /\ fault = ""
  /\ ret = FALSE
  /\ nread = 0
  /\ NoChunks
  /\ range = [min |-> None, max |-> None]
  /\ filter = None
  /\ pretty = None
  /\ args = NoArgs
  /\ inflight = None
  /\ sink = << >>
  /\ rejected = << >>
  /\ argv \in {Flatten(groups) : groups \in SeqsUpTo(OptionGroups, MaxOptions)}
  /\ pc = "start"

\* main, first statement: Arguments::parse() panics, exits or gives the
\* arguments.
MainParse ==
  /\ pc = "start"
  /\ \E parsed \in {ArgumentsParse(argv, env, Len(files)) : env \in EnvPatterns} :
       IF parsed.st = "panic"
       THEN /\ pc' = "panic"
            /\ fault' = "args"
            /\ UNCHANGED << range, filter, pretty, args >>
       ELSE IF parsed.st = "exit"
       THEN /\ pc' = "exit"
            /\ UNCHANGED << fault, range, filter, pretty, args >>
       ELSE /\ pc' = "open"
            /\ range' = parsed.init.range
            /\ filter' = parsed.init.filter
            /\ pretty' = parsed.init.pretty
            /\ args' = [sources |-> parsed.init.sources,
                        output |-> parsed.init.output,
                        chunked |-> parsed.init.chunked,
                        translations |-> parsed.init.translations,
                        zip |-> parsed.init.zip]
            /\ UNCHANGED fault
  /\ UNCHANGED << files, logs, out, last, calls, ret, nread, argv, pipeVars, chunkVars >>

\* The index of the file a path names.
FileIndex(path) == CHOOSE i \in 1..Len(files) : FileName(i) = path

\* main, second statement: LogFile::new opens every source.
OpenSources ==
  /\ pc = "open"
  /\ logs' = [k \in 1..Len(args.sources) |->
                LogFileNew(FileIndex(args.sources[k]), files[FileIndex(args.sources[k])])]
  /\ pc' = "new"
  /\ UNCHANGED << files, out, last, calls, fault, ret, nread, cfgVars, pipeVars, chunkVars >>

\* handle_output, called by main once the Aggregator is built and before
\* do_pretty asks it for a record: the ChunkedWriter or the output file is
\* created, or stdout is taken.
HandleOutput ==
  /\ pc = "pull"
  /\ IF args.output # None /\ args.chunked # None
     THEN LET st == ChunkedWriterNew(args.output[1], args.chunked[1], args.zip)
          IN /\ cw' = st.cw
             /\ disk' = st.disk
             /\ events' = st.events
     ELSE IF args.output # None
     THEN /\ disk' = << [path |-> args.output[1], text |-> "", open |-> TRUE] >>
          /\ events' = << Event("create", args.output[1]) >>
          /\ UNCHANGED cw
     ELSE UNCHANGED chunkVars
  /\ pc' = "for_each"
  /\ UNCHANGED << files, logs, out, last, calls, fault, ret, nread, cfgVars, pipeVars >>

ArgsNext == MainParse \/ OpenSources \/ AggregatorNew \/ HandleOutput

ArgsSpec == ArgsInit /\ [][ArgsNext]_vars

\* Whether the command line holds one of the options flags.
HasOption(flags) == \E i \in 1..Len(argv) : argv[i] \in flags

\* Whether the command line holds one of the options flags with one of the
\* values right behind it.
HasValue(flags, values) ==
  \E i \in 1..(Len(argv) - 1) : argv[i] \in flags /\ argv[i + 1] \in values

\* Whether the command line holds a configuration error: a pattern, a filter
\* or a chunk size that does not parse, --chunked without --output, --pretty
\* with --json true.
BadConfig ==
  \/ HasValue({"-p", "--pretty"}, {"%oops(x)"})
  \/ HasValue({"-f", "--filter"}, {"%level=("})
  \/ HasValue({"-c", "--chunked"}, {"2xb"})
  \/ HasOption({"-c", "--chunked"}) /\ ~HasOption({"-o", "--output"})
  \/ HasOption({"-p", "--pretty"}) /\ HasValue({"-j", "--json"}, {"true"})

\* C29: a run whose command line holds a configuration error (a bad pattern,
\* a bad filter regex, a bad chunk size, --chunked without --output, --pretty
\* with --json true) ends in Arguments::parse: no input file is opened, no
\* record is read and no output file is created.
C29_ConfigErrorsAbortFirst ==
  BadConfig =>
    /\ pc \in {"start", "panic"} \cup (IF HasOption({"--help"}) THEN {"exit"} ELSE {})
    /\ pc = "panic" => fault = "args"
    /\ logs = << >>
    /\ nread = 0
    /\ out = << >>
    /\ cw = None
    /\ disk = << >>
    /\ events = << >>

\* --chunked without --output, found when all tokens were read and the
\* sources were listed, ended the run.
C29_Witness ==
  /\ argv = << "--chunked", "2ln", "f*" >>
  /\ pc = "panic"
  /\ fault = "args"

\* C30: without --zip the output is gzipped if there is an --output and is
\* not if there is none, whatever --pretty and --json are.
C30_ZipDefault ==
  [][(pc = "start" /\ pc' = "open" /\ ~HasOption({"-z", "--zip"})) =>
       args'.zip = (args'.output # None)]_vars

\* ------------------------------------------- the order of the whole pipeline
\* Whether a record of the Aggregator satisfies the time range and the
\* filter set of the run.
Passes(line) == RangeContains(range, line.time) /\ FilterAccepts(filter, line)

\* The records of s that pass, and those that do not, in their order.
RECURSIVE Passing(_)
Passing(s) ==
  IF s = << >> THEN << >>
  ELSE (IF Passes(Head(s)) THEN << Head(s) >> ELSE << >>) \o Passing(Tail(s))
RECURSIVE Failing(_)
Failing(s) ==
  IF s = << >> THEN << >>
  ELSE (IF Passes(Head(s)) THEN << >> ELSE << Head(s) >>) \o Failing(Tail(s))

\* The records written to the sink, in the order of their writing.
SinkLines == [i \in 1..Len(sink) |-> sink[i].line]

\* The output of the Aggregator without the record that is still on its way
\* through the range and the filter.
Settled ==
  IF pc \in {"range", "filter", "print"} THEN SubSeq(out, 1, Len(out) - 1) ELSE out

\* C31: the records written to the sink are the records of the Aggregator's
\* output that satisfy the time range and the filter set, in the same order;
\* every written record is ended once, the last one when its end_line is
\* still to come; a rejected record is not written and not ended.
C31_PipelineOrder ==
  /\ SinkLines = Passing(Settled)
  /\ rejected = Failing(Settled)
  /\ \A i \in 1..Len(sink) : sink[i].ended = (i < Len(sink) \/ pc # "end_line")
  /\ pc = "print" => inflight # None /\ Passes(inflight[1])
  /\ pc = "end_line" => sink # << >> /\ inflight = Some(sink[Len(sink)].line)

\* The run is over: the first and the third record of the Aggregator were
\* written and ended, the second one was rejected.
C31_Witness ==
  /\ pc = "done"
  /\ Len(out) = 3
  /\ SinkLines = << out[1], out[3] >>
  /\ rejected = << out[2] >>
  /\ \A i \in 1..Len(sink) : sink[i].ended

\* ------------------------------------------------ whole lines in a chunk
\* Whether a text is made of whole lines: it is empty or ends with the line
\* terminator.
WholeLines(text) == text = "" \/ SubSeq(text, Len(text), Len(text)) = "\n"

\* C32: a write never rolls the chunk over: its bytes go to the active chunk
\* file, which stays the active one, even when they carry the byte count
\* over the threshold; end_line puts the line terminator into the same file
\* and only then may open the next one, which starts empty; so every chunk
\* file that is not the active one holds whole lines only.
C32_RolloverOnlyAtEndLine ==
  [][pc = "chunk" =>
       LET active == cw.inner
           wrote == CountOp(events', "write") = CountOp(events, "write") + 1
           ended == CountOp(events', "end_line") = CountOp(events, "end_line") + 1
       IN /\ wrote =>
               /\ ~ended
               /\ Len(disk') = Len(disk)
               /\ cw'.inner = active
               /\ \E buf \in ChunkBufs : disk'[active].text = disk[active].text \o buf
          /\ ended =>
               /\ ~wrote
               /\ disk'[active].text = disk[active].text \o "\n"
               /\ Len(disk') \in {Len(disk), Len(disk) + 1}
               /\ Len(disk') = Len(disk) + 1 =>
                    cw'.inner = Len(disk') /\ disk'[Len(disk')].text = ""
               /\ Len(disk') = Len(disk) => cw'.inner = active
          /\ \A k \in 1..Len(disk) : k # active => disk'[k].text = disk[k].text
          /\ \A k \in 1..Len(disk') : k # cw'.inner => WholeLines(disk'[k].text)]_vars

\* Under a threshold of two bytes a record of three bytes was written and
\* ended: the record and its line terminator are in the first chunk file,
\* the second one is open and empty.
C32_Witness ==
  /\ pc = "chunk"
  /\ cw.chunk_info = ChunkInfo(2, "Bytes")
  /\ Len(disk) = 2
  /\ disk[1].text = "b\nc\n"
  /\ disk[2].text = ""
  /\ cw.inner = 2

\* ------------------------------------- the arguments of a replace call
\* The regex and replacement arguments tried: one literal (the second with
\* an escaped slash), nothing, a variable, a literal before a variable, a
\* nested call.
ReplaceArguments == {"l", "a\\/b", "", "%x", "a%x", "%prefix(a/b)"}

\* The call of replace or replaceAll on %message with a regex and a
\* replacement argument.
ReplaceCall(name, regex, replacement) ==
  "%" \o name \o "(%message/" \o regex \o "/" \o replacement \o ")"

\* Arguments::parse before a --pretty option whose pattern is such a call.
ReplaceArgInit ==
  /\ NoInputs
  /\ NoChunks
  /\ range = [min |-> None, max |-> None]
  /\ filter = None
  /\ pretty = None
  /\ args = NoArgs
  /\ sink = << >>
  /\ rejected = << >>
  /\ inflight \in {Some(PrettyRecord(<< Entry("message", "string", "hello") >>)),
                   Some(PrettyRecord(<< Entry("message", "string", "a/b") >>))}
  /\ argv \in {<< Arg("--pretty", Some(ReplaceCall(name, regex, replacement))) >> :
                 name \in {"replace", "replaceAll"},
                 regex \in ReplaceArguments, replacement \in ReplaceArguments}
  /\ pc = "args"

ReplaceArgSpec == ReplaceArgInit /\ [][PrettyNext]_vars

\* The text of an argument that is one literal.
OneLiteral(argument) == IF argument = "l" THEN "l" ELSE "a/b"

\* C33: the regex and the replacement of a replace or replaceAll call must
\* each be one Literal token, and no Literal token of the lexer is empty: a
\* call whose regex or replacement is empty or holds a variable or a nested
\* call makes the parse fail, and is not parsed with an empty or a computed
\* argument.
C33_ReplaceArguments ==
  [][pc = "args" =>
       /\ LET tokens == Lex(Head(argv).value[1])
          IN tokens # None =>
               \A i \in 1..Len(tokens[1]) :
                 tokens[1][i].kind = "Literal" => tokens[1][i].text # ""
       /\ \A name \in {"replace", "replaceAll"},
             regex \in ReplaceArguments, replacement \in ReplaceArguments :
            Head(argv).value = Some(ReplaceCall(name, regex, replacement)) =>
              IF regex \in {"l", "a\\/b"} /\ replacement \in {"l", "a\\/b"}
              THEN /\ pc' = "print"
                   /\ pretty' = Some(<< ReplaceFrag(<< VariableFrag("message") >>,
                                                    OneLiteral(regex),
                                                    OneLiteral(replacement),
                                                    name = "replaceAll") >>)
              ELSE pc' = "panic" /\ pretty' = None]_vars

\* The call %replace(%message//l), with an empty regex, made the parse fail.
C33_Witness ==
  /\ pc = "panic"
  /\ fault = "pretty"
  /\ argv = << Arg("--pretty", Some("%replace(%message//l)")) >>

====
